---------------------------- MODULE Spec2Model ----------------------------
(***************************************************************************)
(* A model of the layout engine of gdot-soundwall                          *)
(* (src/src/gdot_soundwall/geometry/wall_layout.py) and of the geometry it *)
(* calls: the horizontal alignment, the vertical profile, the TIN surface, *)
(* the station solver and the terrain sampler.                             *)
(*                                                                         *)
(* Numbers.  The program computes in Python floats.  The model computes in *)
(* exact rationals, records [n |-> numerator, d |-> denominator > 0] in    *)
(* lowest terms.  One length unit of the model is 0.0002 m (0.2 mm), the   *)
(* largest unit in which every dimensional constant of config.py and a     *)
(* 100 m wall are whole numbers: 1 m = 5000 units, 1e-6 m = 1/200 unit.    *)
(* Rounding of the floats is not modelled.                                 *)
(*                                                                         *)
(* Bearings.  An alignment of the model is made of tangents along the four *)
(* compass directions; a bearing is the number q of quarter turns          *)
(* clockwise from north (q * pi/2), whose sine and cosine are exact.       *)
(* Arcs and spirals (irrational coordinates) are not modelled.             *)
(***************************************************************************)
EXTENDS Integers, Sequences, FiniteSets, TLC

(***************************************************************************)
(* Exact rational arithmetic standing for the float operations.            *)
(***************************************************************************)
Abs(x) == IF x < 0 THEN -x ELSE x

RECURSIVE GCD(_, _)
GCD(a, b) == IF b = 0 THEN a ELSE GCD(b, a % b)

\* The rational n/d in lowest terms with a positive denominator.
Q(n, d) ==
    LET g == GCD(Abs(n), Abs(d))
        s == IF d < 0 THEN -1 ELSE 1
    IN  [n |-> s * (n \div g), d |-> s * (d \div g)]

\* The whole number k as a rational.
I(k) == [n |-> k, d |-> 1]

LCM(a, b) == (a \div GCD(a, b)) * b

RAdd(a, b) ==
    LET l == LCM(a.d, b.d)
    IN  Q(a.n * (l \div a.d) + b.n * (l \div b.d), l)

RNeg(a) == [n |-> -a.n, d |-> a.d]

RSub(a, b) == RAdd(a, RNeg(b))

RMul(a, b) ==
    LET g1 == GCD(Abs(a.n), b.d)
        g2 == GCD(Abs(b.n), a.d)
    IN  Q((a.n \div g1) * (b.n \div g2), (a.d \div g2) * (b.d \div g1))

\* a / b for b # 0 (the callers guard the division as the code does).
RDiv(a, b) ==
    RMul(a, IF b.n < 0 THEN [n |-> -b.d, d |-> -b.n] ELSE [n |-> b.d, d |-> b.n])

\* math.ceil and the floor of a rational, as integers.
RFloor(a) == a.n \div a.d

RCeil(a) == -((-a.n) \div a.d)

\* a < b: by the whole parts, then by the fractional parts.
RLess(a, b) ==
    LET fa == RFloor(a)
        fb == RFloor(b)
    IN  IF fa # fb THEN fa < fb
        ELSE (a.n - fa * a.d) * b.d < (b.n - fb * b.d) * a.d

RLeq(a, b) == a = b \/ RLess(a, b)

RAbs(a) == [n |-> Abs(a.n), d |-> a.d]

RMin(a, b) == IF RLess(b, a) THEN b ELSE a

RMax(a, b) == IF RLess(a, b) THEN b ELSE a

\* Python's float a % b for b > 0: the result has the sign of b.
RMod(a, b) == RSub(a, RMul(b, I(RFloor(RDiv(a, b)))))

\* max(1, k) of an integer.
Max1(k) == IF k < 1 THEN 1 ELSE k

\* The first (lowest) index of a non-empty set of indices: the hit of a
\* linear search that returns at its first match.
First(indices) == CHOOSE h \in indices : \A h2 \in indices : h <= h2

\* Python's None.
None == [tag |-> "None"]

\* The tolerance 1e-6 (metres) of the station comparisons, in model units.
EPS == Q(1, 200)

(***************************************************************************)
(* config.py: the dimensional constants, in units of 0.0002 m.             *)
(***************************************************************************)
POST_SPACING_MAX == 15240
PANEL_HEIGHT == 4064
PANEL_THICKNESS == 508
CAP_HEIGHT == 762
EXPANSION_JOINT_SPACING == 121920
CONTRACTION_JOINT_SPACING == 30480
CAISSON_DIAMETER == 3810
CAISSON_DEPTH == 15240
SPREAD_LENGTH == 7620
SPREAD_WIDTH == 7620
SPREAD_DEPTH == 3810
CONTINUOUS_WIDTH == 4570
CONTINUOUS_DEPTH == 3050
DRAINAGE_SLOT_HEIGHT == 254
DRAINAGE_SLOT_SPACING == 30480
DEFAULT_WALL_HEIGHT == 22860
\* mse_height of _compute_mse.
MSE_HEIGHT == 15240

(***************************************************************************)
(* utils/math_helpers.py                                                   *)
(***************************************************************************)
\* sin and cos of q quarter turns.
SinQ(q) == CASE q % 4 = 0 -> 0 [] q % 4 = 1 -> 1 [] q % 4 = 2 -> 0 [] OTHER -> -1

CosQ(q) == CASE q % 4 = 0 -> 1 [] q % 4 = 1 -> 0 [] q % 4 = 2 -> -1 [] OTHER -> 0

\* offset_point: the point `offset` to the right of the bearing.
offset_point(easting, northing, bearing, offset) ==
    [e |-> RAdd(easting, RMul(offset, I(SinQ(bearing + 1)))),
     n |-> RAdd(northing, RMul(offset, I(CosQ(bearing + 1))))]

\* The parabola with x measured from the PVI instead of the BVC.
parabolic_curve_elevation_from_pvi(station, pvi_station, pvi_elevation, grade_in, grade_out, curve_length) ==
    LET bvc_elevation == RSub(pvi_elevation,
                              RMul(grade_in, RDiv(curve_length, I(2))))
        r == RDiv(RSub(grade_out, grade_in), curve_length)
        At(x) == RAdd(RAdd(bvc_elevation, RMul(grade_in, x)),
                      RMul(RMul(RDiv(r, I(2)), x), x))
    IN  At(RSub(station, pvi_station))

\* utils/math_helpers.py: parabolic_curve_elevation
parabolic_curve_elevation(station, pvi_station, pvi_elevation, grade_in, grade_out, curve_length) ==
    LET bvc_station == RSub(pvi_station, RDiv(curve_length, I(2)))
        bvc_elevation == RSub(pvi_elevation,
                              RMul(grade_in, RDiv(curve_length, I(2))))
        r == RDiv(RSub(grade_out, grade_in), curve_length)
        At(x) == RAdd(RAdd(bvc_elevation, RMul(grade_in, x)),
                      RMul(RMul(RDiv(r, I(2)), x), x))
    IN  At(RSub(station, bvc_station))

(***************************************************************************)
(* landxml/alignment.py.  A segment is a record                            *)
(*   [start_station, end_station, start_easting, start_northing,           *)
(*    end_easting, end_northing, bearing]                                  *)
(* (a LineSegment); an alignment is a sequence of segments.                *)
(***************************************************************************)
\* LineSegment.point_at_station
seg_point_at_station(seg, station) ==
    LET dist == RSub(station, seg.start_station)
    IN  [ok |-> TRUE,
         e |-> RAdd(seg.start_easting, RMul(dist, I(SinQ(seg.bearing)))),
         n |-> RAdd(seg.start_northing, RMul(dist, I(CosQ(seg.bearing)))),
         b |-> seg.bearing]

\* HorizontalAlignment.start_station / end_station
alignment_start_station(segments) ==
    IF Len(segments) = 0 THEN I(0) ELSE segments[1].start_station

alignment_end_station(segments) ==
    IF Len(segments) = 0 THEN I(0) ELSE segments[Len(segments)].end_station

\* HorizontalAlignment.point_at_station: [ok |-> FALSE] is the ValueError.
point_at_station(segments, station) ==
    LET Found(hits) ==
            IF hits # {}
            THEN seg_point_at_station(segments[First(hits)],
                     RMin(station, segments[First(hits)].end_station))
            ELSE IF RLess(station, alignment_start_station(segments))
                    /\ Len(segments) > 0
            THEN seg_point_at_station(segments[1], segments[1].start_station)
            ELSE IF RLess(alignment_end_station(segments), station)
                    /\ Len(segments) > 0
            THEN seg_point_at_station(segments[Len(segments)],
                                      segments[Len(segments)].end_station)
            ELSE [ok |-> FALSE]
    IN  Found({k \in 1..Len(segments) :
                 /\ RLeq(segments[k].start_station, station)
                 /\ RLeq(station, RAdd(segments[k].end_station, EPS))})

(***************************************************************************)
(* landxml/profile.py.  A PVI is [station, elevation, curve_length]; a     *)
(* profile is None or [pvis |-> a sequence of PVIs].                       *)
(***************************************************************************)
has_curve(pvi) == RLess(I(0), pvi.curve_length)

bvc_station(pvi) == RSub(pvi.station, RDiv(pvi.curve_length, I(2)))

evc_station(pvi) == RAdd(pvi.station, RDiv(pvi.curve_length, I(2)))

\* VerticalProfile._grade_between (|ds| < 1e-10 m is ds = 0 for the
\* stations of the model, which differ by at least 1/200 unit or not at all).
grade_between(pvi1, pvi2) ==
    LET ds == RSub(pvi2.station, pvi1.station)
    IN  IF ds.n = 0 THEN I(0)
        ELSE RDiv(RSub(pvi2.elevation, pvi1.elevation), ds)

\* VerticalProfile.elevation_at_station
elevation_at_station(pvis, station) ==
    LET len == Len(pvis)
        onCurve == {k \in 1..len :
                       /\ has_curve(pvis[k])
                       /\ RLeq(bvc_station(pvis[k]), station)
                       /\ RLeq(station, evc_station(pvis[k]))}
        sta1(k) == IF has_curve(pvis[k]) THEN evc_station(pvis[k])
                   ELSE pvis[k].station
        sta2(k) == IF has_curve(pvis[k + 1]) THEN bvc_station(pvis[k + 1])
                   ELSE pvis[k + 1].station
        onTangent == {k \in 1..(len - 1) :
                         RLeq(sta1(k), station) /\ RLeq(station, sta2(k))}
        Curve(k) ==
            parabolic_curve_elevation(station, pvis[k].station, pvis[k].elevation,
                IF k > 1 THEN grade_between(pvis[k - 1], pvis[k]) ELSE I(0),
                IF k < len THEN grade_between(pvis[k], pvis[k + 1]) ELSE I(0),
                pvis[k].curve_length)
        \* from PVI k along the grade to PVI k + 1
        Along(k) == RAdd(pvis[k].elevation,
                         RMul(grade_between(pvis[k], pvis[k + 1]),
                              RSub(station, pvis[k].station)))
        \* from the last PVI along the grade of the last two
        Beyond == RAdd(pvis[len].elevation,
                       RMul(grade_between(pvis[len - 1], pvis[len]),
                            RSub(station, pvis[len].station)))
        Tangent_(curves, tangents) ==
            IF curves # {} THEN Curve(First(curves))
            ELSE IF tangents # {} THEN Along(First(tangents))
            ELSE IF RLeq(station, pvis[1].station) THEN Along(1)
            ELSE IF RLeq(pvis[len].station, station) THEN Beyond
            ELSE I(0)
    IN  IF len = 0 THEN I(0)
        ELSE IF len = 1 THEN pvis[1].elevation
        ELSE Tangent_(onCurve, onTangent)

(***************************************************************************)
(* landxml/surface.py.  A surface is None or [vertices, triangles]:        *)
(* vertices a sequence of [x, y, z], triangles a sequence of index         *)
(* triples (1-based here).                                                 *)
(***************************************************************************)
\* |denom| < 1e-12 m^2, i.e. < 1/40000 square unit.
DenomTol == Q(1, 40000)

\* lambda >= -1e-6 (a pure number).
AboveTol(l) == l.n >= 0 \/ (-l.n) <= l.d \div 1000000

\* TerrainSurface._point_in_triangle
point_in_triangle(px, py, v0, v1, v2) ==
    LET Interpolate(lambda0, lambda1, lambda2) ==
            IF AboveTol(lambda0) /\ AboveTol(lambda1) /\ AboveTol(lambda2)
            THEN RAdd(RAdd(RMul(lambda0, v0.z), RMul(lambda1, v1.z)),
                      RMul(lambda2, v2.z))
            ELSE None
        Lambdas(lambda0, lambda1) ==
            Interpolate(lambda0, lambda1, RSub(RSub(I(1), lambda0), lambda1))
        Bary(denom) ==
            IF RLess(RAbs(denom), DenomTol) THEN None
            ELSE Lambdas(
                RDiv(RAdd(RMul(RSub(v1.y, v2.y), RSub(px, v2.x)),
                          RMul(RSub(v2.x, v1.x), RSub(py, v2.y))), denom),
                RDiv(RAdd(RMul(RSub(v2.y, v0.y), RSub(px, v2.x)),
                          RMul(RSub(v0.x, v2.x), RSub(py, v2.y))), denom))
    IN  Bary(RAdd(RMul(RSub(v1.y, v2.y), RSub(v0.x, v2.x)),
                  RMul(RSub(v2.x, v1.x), RSub(v0.y, v2.y))))

\* TerrainSurface.elevation_at: the first triangle that contains the point.
elevation_at(surface, easting, northing) ==
    LET tri(t) == point_in_triangle(easting, northing,
                      surface.vertices[surface.triangles[t][1]],
                      surface.vertices[surface.triangles[t][2]],
                      surface.vertices[surface.triangles[t][3]])
        Hit(hits) == IF hits = {} THEN None ELSE tri(First(hits))
    IN  IF Len(surface.triangles) = 0 \/ Len(surface.vertices) = 0 THEN None
        ELSE Hit({t \in 1..Len(surface.triangles) : tri(t) # None})

(***************************************************************************)
(* geometry/station_solver.py and geometry/terrain_sampler.py              *)
(***************************************************************************)
\* StationSolver.solve: [ok |-> FALSE] when point_at_station raises.
solve(alignment, profile, station, offset) ==
    LET Moved(p) == IF RLess(EPS, RAbs(offset))
                    THEN offset_point(p.e, p.n, p.b, offset)
                    ELSE [e |-> p.e, n |-> p.n]
        elevation == IF profile # None /\ Len(profile.pvis) > 0
                     THEN elevation_at_station(profile.pvis, station)
                     ELSE I(0)
        StationPoint(p, xy) ==
            [ok |-> TRUE, station |-> station, easting |-> xy.e,
             northing |-> xy.n, elevation |-> elevation, bearing |-> p.b]
        Point(p) == IF ~p.ok THEN [ok |-> FALSE] ELSE StationPoint(p, Moved(p))
    IN  Point(point_at_station(alignment, station))

\* TerrainSampler.sample_at_station of a solved point (solve is called
\* again inside it, with the same result).
sample_at_point(surface, point) ==
    LET Pick(elev) == IF elev # None THEN elev ELSE point.elevation
    IN  Pick(IF surface # None
             THEN elevation_at(surface, point.easting, point.northing)
             ELSE None)

\* TerrainSampler.sample_at_station (called where solve does not raise).
sample_at_station(alignment, profile, surface, station, offset) ==
    sample_at_point(surface, solve(alignment, profile, station, offset))

(***************************************************************************)
(* model/footing.py                                                        *)
(***************************************************************************)
make_caisson(post_index, station, easting, northing, top_elevation, bearing) ==
    [post_index |-> post_index, foundation_type |-> "CAISSON",
     station |-> station, easting |-> easting, northing |-> northing,
     top_elevation |-> top_elevation, bearing |-> bearing,
     width |-> 0, length |-> 0, depth |-> CAISSON_DEPTH,
     diameter |-> CAISSON_DIAMETER]

make_spread_footing(post_index, station, easting, northing, top_elevation, bearing) ==
    [post_index |-> post_index, foundation_type |-> "SPREAD_FOOTING",
     station |-> station, easting |-> easting, northing |-> northing,
     top_elevation |-> top_elevation, bearing |-> bearing,
     width |-> SPREAD_WIDTH, length |-> SPREAD_LENGTH, depth |-> SPREAD_DEPTH,
     diameter |-> 0]

\* make_continuous_footing: one bay length (3.048 m) long.
make_continuous_footing(post_index, station, easting, northing, top_elevation, bearing) ==
    [post_index |-> post_index, foundation_type |-> "CONTINUOUS_FOOTING",
     station |-> station, easting |-> easting, northing |-> northing,
     top_elevation |-> top_elevation, bearing |-> bearing,
     width |-> CONTINUOUS_WIDTH, length |-> 15240, depth |-> CONTINUOUS_DEPTH,
     diameter |-> 0]

(***************************************************************************)
(* geometry/wall_layout.py: the pure parts of WallLayoutEngine.  `self` is *)
(* the engine: [alignment, profile, surface, wall_type, wall_height,       *)
(* foundation_type, post_spacing, offset, start_station, end_station].     *)
(***************************************************************************)
\* `arg or default` of __init__: None and 0.0 are both falsy.
OrDefault(arg, default) == IF arg = None \/ arg.n = 0 THEN default ELSE arg

\* WallLayoutEngine.__init__
NewEngine(args) ==
    [alignment |-> args.alignment, profile |-> args.profile, surface |-> args.surface,
     wall_type |-> args.wall_type, wall_height |-> args.wall_height,
     foundation_type |-> args.foundation_type, post_spacing |-> args.post_spacing,
     offset |-> args.offset,
     start_station |-> OrDefault(args.start_station,
                                 alignment_start_station(args.alignment)),
     end_station |-> OrDefault(args.end_station,
                               alignment_end_station(args.alignment))]

\* WallLayout(...) as compute() constructs it.
NewLayout(self) ==
    [wall_type |-> self.wall_type, start_station |-> self.start_station,
     end_station |-> self.end_station, wall_height |-> self.wall_height,
     foundation_type |-> self.foundation_type,
     posts |-> <<>>, panels |-> <<>>, footings |-> <<>>, caps |-> <<>>,
     joints |-> <<>>, drainage_slots |-> <<>>, bays |-> <<>>,
     mse_segments |-> <<>>]

\* num_bays of _compute_post_stations (post_spacing # 0).
post_num_bays(self) ==
    Max1(RCeil(RDiv(RSub(self.end_station, self.start_station),
                    self.post_spacing)))

\* _compute_post_stations stepping by the requested post_spacing instead of
\* the evenly redistributed actual_spacing.
_compute_post_stations_requested(self) ==
    [k \in 1..(post_num_bays(self) + 1) |->
        RAdd(self.start_station, RMul(I(k - 1), self.post_spacing))]

\* WallLayoutEngine._compute_post_stations
_compute_post_stations(self) ==
    LET total_length == RSub(self.end_station, self.start_station)
        num_bays == post_num_bays(self)
        actual_spacing == RDiv(total_length, I(num_bays))
    IN  [k \in 1..(num_bays + 1) |->
            RAdd(self.start_station, RMul(I(k - 1), actual_spacing))]

\* The SteelPost of step 2 standing on top of the MSE body when the wall is
\* MSE_COMPOSITE.
make_post_on_mse(self, ix, station, point, ground_elev) ==
    LET Post(ground) ==
            [index |-> ix, station |-> station, easting |-> point.easting,
             northing |-> point.northing, ground_elevation |-> ground,
             top_elevation |-> RAdd(ground, self.wall_height),
             bearing |-> point.bearing, height |-> self.wall_height]
    IN  Post(IF self.wall_type = "MSE_COMPOSITE"
             THEN RAdd(ground_elev, I(MSE_HEIGHT)) ELSE ground_elev)

\* The SteelPost of step 2; point is solve(station, offset).
make_post(self, ix, station, point, ground_elev) ==
    [index |-> ix, station |-> station, easting |-> point.easting,
     northing |-> point.northing, ground_elevation |-> ground_elev,
     top_elevation |-> RAdd(ground_elev, self.wall_height),
     bearing |-> point.bearing, height |-> self.wall_height]

\* _make_footing seating the footing at the top of the post.
_make_footing_at_top(self, post) ==
    IF self.foundation_type = "CAISSON"
    THEN make_caisson(post.index, post.station, post.easting, post.northing,
                      post.top_elevation, post.bearing)
    ELSE make_spread_footing(post.index, post.station, post.easting,
                             post.northing, post.top_elevation, post.bearing)

\* WallLayoutEngine._make_footing
_make_footing(self, post) ==
    IF self.foundation_type = "CAISSON"
    THEN make_caisson(post.index, post.station, post.easting, post.northing,
                      post.ground_elevation, post.bearing)
    ELSE make_spread_footing(post.index, post.station, post.easting,
                             post.northing, post.ground_elevation, post.bearing)

\* math.sqrt(de ** 2 + dn ** 2): exact for a bay along a compass direction,
\* the only bays of the model; kept as the radicand otherwise.
Hypot(de, dn) ==
    IF de.n = 0 THEN RAbs(dn)
    ELSE IF dn.n = 0 THEN RAbs(de)
    ELSE [sqrt_of |-> RAdd(RMul(de, de), RMul(dn, dn))]

\* ground_elev and top_elev of _make_bay.
bay_ground_elev(left, right) ==
    RMin(left.ground_elevation, right.ground_elevation)

bay_top_elev(left, right) == RMax(left.top_elevation, right.top_elevation)

\* num_panels of _make_bay without the cap's height taken off.
bay_num_panels_no_cap(left, right) ==
    Max1(RCeil(RDiv(RSub(bay_top_elev(left, right),
                         bay_ground_elev(left, right)), I(PANEL_HEIGHT))))

\* num_panels of _make_bay rounding down instead of up.
bay_num_panels_floor(left, right) ==
    LET wall_h == RSub(RSub(bay_top_elev(left, right),
                            bay_ground_elev(left, right)), I(CAP_HEIGHT))
    IN  Max1(RFloor(RDiv(wall_h, I(PANEL_HEIGHT))))

\* num_panels of _make_bay.
bay_num_panels(left, right) ==
    LET wall_h == RSub(RSub(bay_top_elev(left, right),
                            bay_ground_elev(left, right)), I(CAP_HEIGHT))
    IN  Max1(RCeil(RDiv(wall_h, I(PANEL_HEIGHT))))

\* The drainage test measuring the bay's station from station 0 instead of
\* the wall's start.
bay_has_drainage_from_zero(self, left, right) ==
    LET bay_station == RDiv(RAdd(left.station, right.station), I(2))
    IN  RLess(RAbs(RMod(bay_station, I(DRAINAGE_SLOT_SPACING))),
              self.post_spacing)

\* The drainage test of _make_bay for the bottom panel.
bay_has_drainage(self, left, right) ==
    LET bay_station == RDiv(RAdd(left.station, right.station), I(2))
        dist_from_start == RSub(bay_station, self.start_station)
    IN  RLess(RAbs(RMod(dist_from_start, I(DRAINAGE_SLOT_SPACING))),
              self.post_spacing)

\* bottom_elev of panel s stacked from the left post's ground.
panel_bottom_elev_from_left(left, right, s) ==
    RAdd(left.ground_elevation, I(s * PANEL_HEIGHT))

\* bottom_elev of panel s of _make_bay.
panel_bottom_elev(left, right, s) ==
    RAdd(bay_ground_elev(left, right), I(s * PANEL_HEIGHT))

\* cap_bottom of _make_bay.
bay_cap_bottom(left, right) ==
    RAdd(bay_ground_elev(left, right),
         I(bay_num_panels(left, right) * PANEL_HEIGHT))

\* WallLayoutEngine._make_bay
_make_bay(self, index, left, right, lay) ==
    LET mid_e == RDiv(RAdd(left.easting, right.easting), I(2))
        mid_n == RDiv(RAdd(left.northing, right.northing), I(2))
        bay_width == Hypot(RSub(right.easting, left.easting),
                           RSub(right.northing, left.northing))
        num_panels == bay_num_panels(left, right)
        bearing == left.bearing
        has_drainage(s) == s = 0 /\ bay_has_drainage(self, left, right)
        panel(s) ==
            [bay_index |-> index, stack_index |-> s,
             station_start |-> left.station, station_end |-> right.station,
             easting |-> mid_e, northing |-> mid_n,
             bottom_elevation |-> panel_bottom_elev(left, right, s),
             bearing |-> bearing, width |-> bay_width,
             height |-> PANEL_HEIGHT, thickness |-> PANEL_THICKNESS,
             has_drainage_slot |-> has_drainage(s)]
        slot ==
            [panel_bay_index |-> index,
             station |-> RDiv(RAdd(left.station, right.station), I(2)),
             easting |-> mid_e, northing |-> mid_n,
             elevation |-> RAdd(panel_bottom_elev(left, right, 0),
                                Q(DRAINAGE_SLOT_HEIGHT, 2))]
        cap ==
            [bay_index |-> index, station_start |-> left.station,
             station_end |-> right.station, easting |-> mid_e,
             northing |-> mid_n, bottom_elevation |-> bay_cap_bottom(left, right),
             bearing |-> bearing, width |-> bay_width, height |-> CAP_HEIGHT]
    IN  [index |-> index, post_left |-> left, post_right |-> right,
         panels |-> [s \in 1..num_panels |-> panel(s - 1)],
         cap |-> cap,
         footing_left |-> IF Len(lay.footings) > 0
                          THEN lay.footings[left.index + 1] ELSE None,
         footing_right |-> IF Len(lay.footings) > 0
                              /\ right.index < Len(lay.footings)
                           THEN lay.footings[right.index + 1] ELSE None,
         joints |-> <<>>,
         drainage_slots |-> IF has_drainage(0) THEN <<slot>> ELSE <<>>]

\* PrecastPanel.top_elevation
panel_top_elevation(panel) == RAdd(panel.bottom_elevation, I(panel.height))

\* The Joint carrying the index of its post instead of its bay.
make_joint_post_index(joint_type, right, ix) ==
    [joint_type |-> joint_type, station |-> right.station,
     easting |-> right.easting, northing |-> right.northing,
     ground_elevation |-> right.ground_elevation,
     top_elevation |-> right.top_elevation, bearing |-> right.bearing,
     bay_index |-> right.index]

\* The Joint of _compute_joints at the right post of bay ix.
make_joint(joint_type, right, ix) ==
    [joint_type |-> joint_type, station |-> right.station,
     easting |-> right.easting, northing |-> right.northing,
     ground_elevation |-> right.ground_elevation,
     top_elevation |-> right.top_elevation, bearing |-> right.bearing,
     bay_index |-> ix]

\* lay.joints.append(joint); lay.bays[ix].joints.append(joint)
AddJoint(lay, joint, ix) ==
    [lay EXCEPT
        !.joints = Append(@, joint),
        !.bays = IF ix < Len(@)
                 THEN [@ EXCEPT ![ix + 1].joints = Append(@, joint)] ELSE @]

\* joint_step with strict thresholds (> for >=).
joint_step_strict(lay, ix, d_exp, d_con) ==
    LET left == lay.posts[ix + 1]
        right == lay.posts[ix + 2]
        bay_length == RSub(right.station, left.station)
        e == RAdd(d_exp, bay_length)
        c == RAdd(d_con, bay_length)
    IN  IF RLess(I(EXPANSION_JOINT_SPACING), e)
        THEN [lay |-> AddJoint(lay, make_joint("EXPANSION", right, ix), ix),
              d_exp |-> I(0), d_con |-> I(0)]
        ELSE IF RLess(I(CONTRACTION_JOINT_SPACING), c)
        THEN [lay |-> AddJoint(lay, make_joint("CONTRACTION", right, ix), ix),
              d_exp |-> e, d_con |-> I(0)]
        ELSE [lay |-> lay, d_exp |-> e, d_con |-> c]

\* joint_step with a contraction joint resetting both counters.
joint_step_resets_both(lay, ix, d_exp, d_con) ==
    LET left == lay.posts[ix + 1]
        right == lay.posts[ix + 2]
        bay_length == RSub(right.station, left.station)
        e == RAdd(d_exp, bay_length)
        c == RAdd(d_con, bay_length)
    IN  IF RLeq(I(EXPANSION_JOINT_SPACING), e)
        THEN [lay |-> AddJoint(lay, make_joint("EXPANSION", right, ix), ix),
              d_exp |-> I(0), d_con |-> I(0)]
        ELSE IF RLeq(I(CONTRACTION_JOINT_SPACING), c)
        THEN [lay |-> AddJoint(lay, make_joint("CONTRACTION", right, ix), ix),
              d_exp |-> I(0), d_con |-> I(0)]
        ELSE [lay |-> lay, d_exp |-> e, d_con |-> c]

\* One iteration of the loop of _compute_joints, for bay ix (0-based), from
\* the counters d_exp, d_con: the lay and the counters after it.
joint_step(lay, ix, d_exp, d_con) ==
    LET left == lay.posts[ix + 1]
        right == lay.posts[ix + 2]
        bay_length == RSub(right.station, left.station)
        e == RAdd(d_exp, bay_length)
        c == RAdd(d_con, bay_length)
    IN  IF RLeq(I(EXPANSION_JOINT_SPACING), e)
        THEN [lay |-> AddJoint(lay, make_joint("EXPANSION", right, ix), ix),
              d_exp |-> I(0), d_con |-> I(0)]
        ELSE IF RLeq(I(CONTRACTION_JOINT_SPACING), c)
        THEN [lay |-> AddJoint(lay, make_joint("CONTRACTION", right, ix), ix),
              d_exp |-> e, d_con |-> I(0)]
        ELSE [lay |-> lay, d_exp |-> e, d_con |-> c]

\* The flattening loop adding the bay's cap once per panel.
flatten_bay_cap_per_panel(lay, bay) ==
    [lay EXCEPT
        !.panels = @ \o bay.panels,
        !.caps = @ \o [s \in 1..Len(bay.panels) |-> bay.cap],
        !.drainage_slots = @ \o bay.drainage_slots]

\* The flattening loop putting each bay's parts in front of the earlier
\* bays' parts.
flatten_bay_in_front(lay, bay) ==
    [lay EXCEPT
        !.panels = bay.panels \o @,
        !.caps = IF bay.cap # None THEN <<bay.cap>> \o @ ELSE @,
        !.drainage_slots = bay.drainage_slots \o @]

\* One iteration of the flattening loop of _compute_precast.
flatten_bay(lay, bay) ==
    [lay EXCEPT
        !.panels = @ \o bay.panels,
        !.caps = IF bay.cap # None THEN Append(@, bay.cap) ELSE @,
        !.drainage_slots = @ \o bay.drainage_slots]

\* num_segments of _compute_mse.
mse_num_segments(self) ==
    Max1(RCeil(RDiv(RSub(self.end_station, self.start_station),
                    I(EXPANSION_JOINT_SPACING))))

\* The segment stations stepping by the nominal segment_length instead of
\* actual_segment_length.
mse_sta_nominal(self, ix) ==
    RAdd(self.start_station, RMul(I(ix), I(EXPANSION_JOINT_SPACING)))

\* The stations of segment ix (0-based) of _compute_mse.
mse_sta(self, ix) ==
    RAdd(self.start_station,
         RMul(I(ix), RDiv(RSub(self.end_station, self.start_station),
                          I(mse_num_segments(self)))))

\* The MSESegment ix of _compute_mse from its solved end points.
mse_segment_of(self, ix, pt_start, pt_end) ==
    LET Segment(base_elev) ==
            [index |-> ix, station_start |-> pt_start.station,
             station_end |-> pt_end.station,
             easting_start |-> pt_start.easting,
             northing_start |-> pt_start.northing,
             easting_end |-> pt_end.easting, northing_end |-> pt_end.northing,
             base_elevation |-> base_elev,
             top_elevation |-> RAdd(RAdd(base_elev, I(MSE_HEIGHT)),
                                    self.wall_height),
             bearing |-> pt_start.bearing, wall_height |-> I(MSE_HEIGHT)]
    IN  Segment(RMin(sample_at_point(self.surface, pt_start),
                     sample_at_point(self.surface, pt_end)))

(***************************************************************************)
(* The inputs of the model: alignments, profiles, a surface, and the       *)
(* engine's arguments.                                                     *)
(***************************************************************************)
\* A LineSegment from station s0 to s1 that starts at (e0, n0) and runs
\* along q quarter turns from north.
Tangent(s0, s1, e0, n0, q) ==
    [start_station |-> I(s0), end_station |-> I(s1),
     start_easting |-> I(e0), start_northing |-> I(n0),
     end_easting |-> I(e0 + (s1 - s0) * SinQ(q)),
     end_northing |-> I(n0 + (s1 - s0) * CosQ(q)), bearing |-> q]

\* A 100 m tangent due north from (2000 m, 1000 m), stations 0 to 100 m.
AlignmentNorth == <<Tangent(0, 500000, 10000000, 5000000, 0)>>

\* Two tangents due east, stations 10 m to 40 m and 40 m to 70 m.
AlignmentEast ==
    <<Tangent(50000, 200000, 0, 0, 1), Tangent(200000, 350000, 150000, 0, 1)>>

\* A tangent due north, stations 0 to 4 m, then one due east, stations 4 m
\* to 12 m: the second bay at the default spacing spans the corner.
AlignmentBend ==
    <<Tangent(0, 20000, 0, 0, 0), Tangent(20000, 60000, 0, 20000, 1)>>

\* An alignment without segments.
AlignmentEmpty == <<>>

PVI(station, elevation, curve_length) ==
    [station |-> I(station), elevation |-> I(elevation),
     curve_length |-> I(curve_length)]

\* Flat at 100 m.
ProfileFlat == [pvis |-> <<PVI(0, 500000, 0), PVI(500000, 500000, 0)>>]

\* 100 m, up to a PVI at station 50 m, elevation 105 m with a 20 m curve,
\* down to 100 m at station 100 m.
ProfileCrest ==
    [pvis |-> <<PVI(0, 500000, 0), PVI(250000, 525000, 100000),
                PVI(500000, 500000, 0)>>]

\* A profile without PVIs.
ProfileEmpty == [pvis |-> <<>>]

Vertex(x, y, z) == [x |-> I(x), y |-> I(y), z |-> I(z)]

\* One triangle over the first 0.36 m of AlignmentNorth, sloping up.
SurfaceStart ==
    [vertices |-> <<Vertex(9999000, 4999800, 1000), Vertex(10001000, 4999800, 3000),
                    Vertex(10000000, 5001800, 9000)>>,
     triangles |-> <<<<1, 2, 3>>>>]

\* The number of grid steps of the station arguments of RangeInputs.
MaxGrid == 4

\* Station arguments: None, and the multiples of 12.192 m (four bays at the
\* default spacing) up to MaxGrid steps.
GridStations == {None} \cup {I(g * 60960) : g \in 0..MaxGrid}

\* The end-to-end scenarios: the whole alignment, flat or no profile.
ScenarioInputs ==
    [alignment : {AlignmentNorth}, profile : {None, ProfileFlat},
     surface : {None}, wall_type : {"PRECAST", "MSE_COMPOSITE"},
     wall_height : {I(DEFAULT_WALL_HEIGHT)},
     foundation_type : {"CAISSON", "SPREAD_FOOTING", "CONTINUOUS_FOOTING"},
     post_spacing : {I(POST_SPACING_MAX), I(50000)},
     start_station : {None}, end_station : {None}, offset : {I(0)}]

\* Station ranges: every pair of station arguments, in order, equal or
\* reversed, on each alignment.
RangeInputs ==
    [alignment : {AlignmentNorth, AlignmentEast, AlignmentEmpty},
     profile : {None}, surface : {None}, wall_type : {"PRECAST"},
     wall_height : {I(DEFAULT_WALL_HEIGHT)}, foundation_type : {"CAISSON"},
     post_spacing : {I(POST_SPACING_MAX)},
     start_station : GridStations, end_station : GridStations,
     offset : {I(0)}]

\* The two wall heights of the terrain inputs: the default, and the height
\* of exactly two panels and a cap.
TerrainHeights == {I(DEFAULT_WALL_HEIGHT), I(2 * PANEL_HEIGHT + CAP_HEIGHT)}

\* Short walls at 0.1 m or 0.2 m spacing that start on the surface and leave
\* it, with and without an offset.
SurfaceInputs ==
    [alignment : {AlignmentNorth},
     profile : {None, ProfileEmpty, ProfileCrest},
     surface : {None, SurfaceStart},
     wall_type : {"PRECAST", "MSE_COMPOSITE"},
     wall_height : TerrainHeights, foundation_type : {"CAISSON"},
     post_spacing : {I(500), I(1000)},
     start_station : {None}, end_station : {I(3000)},
     offset : {I(0), I(500)}]

\* Walls from station 38 m over the crest curve of the profile (40 m to
\* 60 m), at 2 m spacing.
CrestInputs ==
    [alignment : {AlignmentNorth}, profile : {ProfileCrest},
     surface : {None, SurfaceStart},
     wall_type : {"PRECAST", "MSE_COMPOSITE"},
     wall_height : TerrainHeights, foundation_type : {"CAISSON"},
     post_spacing : {I(10000)},
     start_station : {I(190000)}, end_station : {I(225000), I(310000)},
     offset : {I(0), I(500)}]

\* The whole of the alignment with a corner, on the centreline and 1 m to
\* its right.
BendInputs ==
    [alignment : {AlignmentBend}, profile : {None}, surface : {None},
     wall_type : {"PRECAST"}, wall_height : {I(DEFAULT_WALL_HEIGHT)},
     foundation_type : {"CAISSON"}, post_spacing : {I(POST_SPACING_MAX)},
     start_station : {None}, end_station : {None},
     offset : {I(0), I(5000)}]

Inputs ==
    ScenarioInputs \cup RangeInputs \cup SurfaceInputs \cup CrestInputs
        \cup BendInputs

(***************************************************************************)
(* The state: the arguments given to WallLayoutEngine, the engine they     *)
(* construct, and the run of compute().                                    *)
(***************************************************************************)
VARIABLES
    supplied,               \* the arguments of WallLayoutEngine(...)
    engine,                 \* the engine: self
    layout,                 \* the WallLayout under construction (None before)
    pc,                     \* where compute() is
    i,                      \* the index of the running loop
    post_stations,          \* the result of _compute_post_stations
    dist_since_expansion,   \* the counters of _compute_joints
    dist_since_contraction,
    previous,               \* the layout the preceding compute() returned
    assemblies,             \* what build_all_assemblies built (None before)
    call,                   \* a call of one of the lookup functions
    result,                 \* what that call returned (None before)
    sta,                    \* the locals of a running solve_range: sta, and
    points                  \* len(points) (None outside the loop)

vars == <<supplied, engine, layout, pc, i, post_stations,
          dist_since_expansion, dist_since_contraction, previous, assemblies,
          call, result, sta, points>>

\* The state after WallLayoutEngine(...) returned.
Init ==
    /\ supplied \in Inputs
    /\ engine = NewEngine(supplied)
    /\ layout = None
    /\ pc = "ready"
    /\ i = 0
    /\ post_stations = <<>>
    /\ dist_since_expansion = I(0)
    /\ dist_since_contraction = I(0)
    /\ previous = None
    /\ assemblies = None
    /\ call = None
    /\ result = None
    /\ sta = None
    /\ points = None

\* The bay loop stopping one bay short.
bay_count_short(lay) == Len(lay.posts) - 2

\* range(len(layout.posts) - 1) of step 4 of _compute_precast.
bay_count(lay) == Len(lay.posts) - 1

\* range(len(layout.posts) - 1) of _compute_joints.
joint_count(lay) == Len(lay.posts) - 1

\* Where compute() goes on after a loop: to the next loop that has
\* something to iterate over, or to its return.
AfterJoints(lay) == IF Len(lay.bays) > 0 THEN "flatten" ELSE "done"

AfterBays(lay) == IF joint_count(lay) > 0 THEN "joints" ELSE AfterJoints(lay)

AfterFootings(lay) == IF bay_count(lay) > 0 THEN "bays" ELSE AfterBays(lay)

\* compute() with the counters of _compute_joints kept from the call
\* before.
ComputeKeepingCounters ==
    /\ pc = "ready"
    /\ layout' = NewLayout(engine)
    /\ pc' = IF engine.wall_type = "PRECAST" THEN "stations" ELSE "mse"
    /\ i' = 0
    /\ post_stations' = <<>>
    /\ UNCHANGED <<dist_since_expansion, dist_since_contraction>>
    /\ UNCHANGED <<supplied, engine, previous, assemblies, call, result>>
    /\ UNCHANGED <<sta, points>>

\* compute(): construct the layout and dispatch on the wall type.  The
\* locals of the invocation are its own: _compute_joints starts its counters
\* at 0.
Compute ==
    /\ pc = "ready"
    /\ layout' = NewLayout(engine)
    /\ pc' = IF engine.wall_type = "PRECAST" THEN "stations" ELSE "mse"
    /\ i' = 0
    /\ post_stations' = <<>>
    /\ dist_since_expansion' = I(0)
    /\ dist_since_contraction' = I(0)
    /\ UNCHANGED <<supplied, engine, previous, assemblies, call, result>>
    /\ UNCHANGED <<sta, points>>

\* _compute_mse: one iteration of the segment loop; after the last one the
\* precast pass starts.
MseSegment ==
    /\ pc = "mse"
    /\ i < mse_num_segments(engine)
    /\ LET Step(pt_start, pt_end) ==
               IF ~pt_start.ok \/ ~pt_end.ok
               THEN /\ pc' = "raised"
                    /\ UNCHANGED <<layout, i>>
               ELSE /\ layout' = [layout EXCEPT !.mse_segments = Append(@,
                          mse_segment_of(engine, i, pt_start, pt_end))]
                    /\ i' = IF i + 1 < mse_num_segments(engine) THEN i + 1 ELSE 0
                    /\ pc' = IF i + 1 < mse_num_segments(engine) THEN "mse"
                             ELSE "stations"
       IN  Step(solve(engine.alignment, engine.profile, mse_sta(engine, i),
                      engine.offset),
                solve(engine.alignment, engine.profile, mse_sta(engine, i + 1),
                      engine.offset))
    /\ UNCHANGED <<previous, assemblies, call, result>>
    /\ UNCHANGED <<supplied, engine, post_stations, dist_since_expansion,
                   dist_since_contraction>>
    /\ UNCHANGED <<sta, points>>

\* _compute_precast, step 1.
PostStations ==
    /\ pc = "stations"
    /\ post_stations' = _compute_post_stations(engine)
    /\ pc' = "posts"
    /\ i' = 0
    /\ UNCHANGED <<previous, assemblies, call, result>>
    /\ UNCHANGED <<supplied, engine, layout, dist_since_expansion,
                   dist_since_contraction>>
    /\ UNCHANGED <<sta, points>>

\* _compute_precast, step 2: one iteration of the post loop.
MakePost ==
    /\ pc = "posts"
    /\ i < Len(post_stations)
    /\ LET Step(point) ==
               IF ~point.ok
               THEN /\ pc' = "raised"
                    /\ UNCHANGED <<layout, i>>
               ELSE /\ layout' = [layout EXCEPT !.posts = Append(@,
                          make_post(engine, i, post_stations[i + 1], point,
                                    sample_at_point(engine.surface, point)))]
                    /\ i' = IF i + 1 < Len(post_stations) THEN i + 1 ELSE 0
                    /\ pc' = IF i + 1 < Len(post_stations) THEN "posts"
                             ELSE "footings"
       IN  Step(solve(engine.alignment, engine.profile, post_stations[i + 1],
                      engine.offset))
    /\ UNCHANGED <<previous, assemblies, call, result>>
    /\ UNCHANGED <<supplied, engine, post_stations, dist_since_expansion,
                   dist_since_contraction>>
    /\ UNCHANGED <<sta, points>>

\* _compute_precast, step 3: one iteration of the footing loop.
MakeFooting ==
    /\ pc = "footings"
    /\ i < Len(layout.posts)
    /\ layout' = [layout EXCEPT
                     !.footings = Append(@, _make_footing(engine, layout.posts[i + 1]))]
    /\ i' = IF i + 1 < Len(layout.posts) THEN i + 1 ELSE 0
    /\ pc' = IF i + 1 < Len(layout.posts) THEN "footings" ELSE AfterFootings(layout)
    /\ UNCHANGED <<previous, assemblies, call, result>>
    /\ UNCHANGED <<supplied, engine, post_stations, dist_since_expansion,
                   dist_since_contraction>>
    /\ UNCHANGED <<sta, points>>

\* The bay loop handing the left post to _make_bay as the right post too.
MakeBayLeftTwice ==
    /\ pc = "bays"
    /\ i < bay_count(layout)
    /\ layout' = [layout EXCEPT
                     !.bays = Append(@, _make_bay(engine, i, layout.posts[i + 1],
                                                  layout.posts[i + 1], layout))]
    /\ i' = IF i + 1 < bay_count(layout) THEN i + 1 ELSE 0
    /\ pc' = IF i + 1 < bay_count(layout) THEN "bays" ELSE AfterBays(layout')
    /\ UNCHANGED <<previous, assemblies, call, result>>
    /\ UNCHANGED <<supplied, engine, post_stations, dist_since_expansion,
                   dist_since_contraction>>
    /\ UNCHANGED <<sta, points>>

\* _compute_precast, step 4: one iteration of the bay loop.
MakeBay ==
    /\ pc = "bays"
    /\ i < bay_count(layout)
    /\ layout' = [layout EXCEPT
                     !.bays = Append(@, _make_bay(engine, i, layout.posts[i + 1],
                                                  layout.posts[i + 2], layout))]
    /\ i' = IF i + 1 < bay_count(layout) THEN i + 1 ELSE 0
    /\ pc' = IF i + 1 < bay_count(layout) THEN "bays" ELSE AfterBays(layout')
    /\ UNCHANGED <<previous, assemblies, call, result>>
    /\ UNCHANGED <<supplied, engine, post_stations, dist_since_expansion,
                   dist_since_contraction>>
    /\ UNCHANGED <<sta, points>>

\* _compute_joints: one iteration of the walk over the bay boundaries.
JointWalk ==
    /\ pc = "joints"
    /\ i < joint_count(layout)
    /\ LET Step(r) == /\ layout' = r.lay
                      /\ dist_since_expansion' = r.d_exp
                      /\ dist_since_contraction' = r.d_con
       IN  Step(joint_step(layout, i, dist_since_expansion,
                           dist_since_contraction))
    /\ i' = IF i + 1 < joint_count(layout) THEN i + 1 ELSE 0
    /\ pc' = IF i + 1 < joint_count(layout) THEN "joints" ELSE AfterJoints(layout)
    /\ UNCHANGED <<previous, assemblies, call, result>>
    /\ UNCHANGED <<supplied, engine, post_stations>>
    /\ UNCHANGED <<sta, points>>

\* _compute_precast: one iteration of the flattening loop; after the last
\* one compute() returns the layout.
Flatten ==
    /\ pc = "flatten"
    /\ i < Len(layout.bays)
    /\ layout' = flatten_bay(layout, layout.bays[i + 1])
    /\ i' = IF i + 1 < Len(layout.bays) THEN i + 1 ELSE 0
    /\ pc' = IF i + 1 < Len(layout.bays) THEN "flatten" ELSE "done"
    /\ UNCHANGED <<previous, assemblies, call, result>>
    /\ UNCHANGED <<supplied, engine, post_stations, dist_since_expansion,
                   dist_since_contraction>>
    /\ UNCHANGED <<sta, points>>

\* compute() is called a second time on the same engine; the caller keeps
\* the layout the first call returned.
ComputeAgain ==
    /\ pc = "done"
    /\ previous = None
    /\ previous' = layout
    /\ pc' = "ready"
    /\ UNCHANGED <<supplied, engine, layout, i, post_stations,
                   dist_since_expansion, dist_since_contraction, assemblies,
                   call, result>>
    /\ UNCHANGED <<sta, points>>

\* A second engine is constructed from the same arguments, for either wall
\* type, to have its compute() called.
SecondEngine ==
    /\ pc = "done"
    /\ previous = None
    /\ \E wall_type \in {"PRECAST", "MSE_COMPOSITE"} :
          /\ supplied' = [supplied EXCEPT !.wall_type = wall_type]
          /\ engine' = NewEngine([supplied EXCEPT !.wall_type = wall_type])
    /\ previous' = layout
    /\ pc' = "ready"
    /\ UNCHANGED <<layout, i, post_stations, dist_since_expansion,
                   dist_since_contraction, assemblies, call, result>>
    /\ UNCHANGED <<sta, points>>

(***************************************************************************)
(* ifc/assembly_builder.py.  An IFC entity is [kind, index, stack]: the     *)
(* IFC class, the index of the post or bay it is built from, and the stack *)
(* index of a panel (0 otherwise).                                         *)
(***************************************************************************)
\* The entity build_post, build_panel, build_footing, build_cap or
\* build_joint_proxy creates.
IfcEntity(kind, index, stack) == [kind |-> kind, index |-> index, stack |-> stack]

\* The posts of a bay with the left one built whether or not it is in
\* built_posts.
bay_posts_left_always(built_posts, bay) ==
    [left |-> <<IfcEntity("IfcColumn", bay.post_left.index, 0)>>,
     right |-> IF bay.post_right.index
                     \notin (built_posts \cup {bay.post_left.index})
               THEN <<IfcEntity("IfcColumn", bay.post_right.index, 0)>>
               ELSE <<>>]

\* The columns build_all_assemblies builds for a bay: the left post and
\* then the right post, each unless it is in built_posts already.
bay_posts(built_posts, bay) ==
    [left |-> IF bay.post_left.index \notin built_posts
              THEN <<IfcEntity("IfcColumn", bay.post_left.index, 0)>>
              ELSE <<>>,
     right |-> IF bay.post_right.index
                     \notin (built_posts \cup {bay.post_left.index})
               THEN <<IfcEntity("IfcColumn", bay.post_right.index, 0)>>
               ELSE <<>>]

\* One iteration of the bay loop of build_all_assemblies: acc holds
\* built_posts and built_footings (their keys) and the assemblies so far.
build_bay_assembly(acc, bay) ==
    LET panels == [s \in 1..Len(bay.panels) |->
                      IfcEntity("IfcWall", bay.panels[s].bay_index,
                                bay.panels[s].stack_index)]
        cap == IF bay.cap # None
               THEN <<IfcEntity("IfcPlate", bay.cap.bay_index, 0)>> ELSE <<>>
        joints == [j \in 1..Len(bay.joints) |->
                      IfcEntity("IfcBuildingElementProxy",
                                bay.joints[j].bay_index, 0)]
        Footings(built1) ==
            [keys |-> (IF bay.footing_left # None THEN {bay.post_left.index}
                       ELSE {})
                      \cup (IF bay.footing_right # None
                            THEN {bay.post_right.index} ELSE {}),
             left |-> IF bay.footing_left # None
                         /\ bay.post_left.index \notin acc.built_footings
                      THEN <<IfcEntity("IfcFooting",
                                       bay.footing_left.post_index, 0)>>
                      ELSE <<>>,
             right |-> IF bay.footing_right # None
                          /\ bay.post_right.index \notin built1
                       THEN <<IfcEntity("IfcFooting",
                                        bay.footing_right.post_index, 0)>>
                       ELSE <<>>]
        Assemble(posts, footings) ==
            [built_posts |-> acc.built_posts
                             \cup {bay.post_left.index, bay.post_right.index},
             built_footings |-> acc.built_footings \cup footings.keys,
             assemblies |-> Append(acc.assemblies,
                [name |-> bay.index,
                 children |-> posts.left \o posts.right \o panels
                              \o footings.left \o footings.right \o cap
                              \o joints])]
    IN  Assemble(bay_posts(acc.built_posts, bay),
                 Footings(acc.built_footings
                          \cup (IF bay.footing_left # None
                                THEN {bay.post_left.index} ELSE {})))

\* The bay loop of build_all_assemblies from bay k (1-based) on.
RECURSIVE build_from(_, _, _)
build_from(lay, k, acc) ==
    IF k > Len(lay.bays) THEN acc
    ELSE build_from(lay, k + 1, build_bay_assembly(acc, lay.bays[k]))

\* build_all_assemblies(ctx, layout, type_lib, mat_lib): the assemblies it
\* returns, with built_posts and built_footings as it leaves them.
build_all_assemblies(lay) ==
    build_from(lay, 1, [built_posts |-> {}, built_footings |-> {},
                        assemblies |-> <<>>])

\* The layout compute() returned is handed to build_all_assemblies.
BuildAllAssemblies ==
    /\ pc = "done"
    /\ assemblies' = build_all_assemblies(layout)
    /\ pc' = "built"
    /\ UNCHANGED <<supplied, engine, layout, i, post_stations,
                   dist_since_expansion, dist_since_contraction, previous,
                   call, result>>
    /\ UNCHANGED <<sta, points>>

Next ==
    \/ Compute
    \/ MseSegment
    \/ PostStations
    \/ MakePost
    \/ MakeFooting
    \/ MakeBay
    \/ JointWalk
    \/ Flatten
    \/ ComputeAgain
    \/ SecondEngine
    \/ BuildAllAssemblies

Spec == Init /\ [][Next]_vars

\* compute() has returned the layout.
Returned == pc = "done"


(***************************************************************************)
(* The lookup functions called on their own: one call, then its return.    *)
(***************************************************************************)
\* Two tangents due east, stations 0 m to 10 m and 20 m to 30 m: no segment
\* holds the stations between 10 m and 20 m.
AlignmentGap ==
    <<Tangent(0, 50000, 0, 0, 1), Tangent(100000, 150000, 50000, 0, 1)>>

\* Stations below, on, between and beyond the segment ends of the
\* alignments, one of them 0.5e-6 m beyond the end of AlignmentNorth.
LookupStations ==
    {I(-5000), I(0), I(25000), I(50000), I(75000), I(100000), I(150000),
     I(200000), I(350000), I(500000), Q(200000001, 400), I(600000)}

PointCalls ==
    [op : {"point_at_station"},
     alignment : {AlignmentNorth, AlignmentEast, AlignmentEmpty, AlignmentGap},
     station : LookupStations]

\* Two triangles that share an edge: a proper TIN.
SurfaceQuad ==
    [vertices |-> <<Vertex(0, 0, 100), Vertex(4000, 0, 200),
                    Vertex(0, 4000, 300), Vertex(4000, 4000, 600)>>,
     triangles |-> <<<<1, 2, 3>>, <<2, 4, 3>>>>]

\* Two triangles that overlap: vertex 4 of the second lies inside the
\* first, 1 m above it.
SurfaceOverlap ==
    [vertices |-> <<Vertex(0, 0, 0), Vertex(4000, 0, 0), Vertex(0, 4000, 0),
                    Vertex(1000, 1000, 5000), Vertex(6000, 6000, 5000)>>,
     triangles |-> <<<<1, 2, 3>>, <<4, 2, 5>>>>]

\* One triangle and a vertex that no triangle refers to.
SurfaceLoose ==
    [vertices |-> <<Vertex(0, 0, 0), Vertex(4000, 0, 0), Vertex(0, 4000, 0),
                    Vertex(9000, 9000, 700)>>,
     triangles |-> <<<<1, 2, 3>>>>]

\* One triangle of three vertices in line.
SurfaceSliver ==
    [vertices |-> <<Vertex(0, 0, 0), Vertex(1000, 0, 100),
                    Vertex(2000, 0, 200)>>,
     triangles |-> <<<<1, 2, 3>>>>]

\* elevation_at at each vertex of each surface.
ElevationCalls ==
    UNION {[op : {"elevation_at"}, surface : {surface},
            vertex : 1..Len(surface.vertices)] :
              surface \in {SurfaceStart, SurfaceQuad, SurfaceOverlap,
                           SurfaceLoose, SurfaceSliver}}

\* sample_at_station on and off the surface, with and without a profile.
SampleCalls ==
    [op : {"sample_at_station"},
     alignment : {AlignmentNorth, AlignmentEmpty},
     profile : {None, ProfileEmpty, ProfileCrest},
     surface : {None, SurfaceStart},
     station : {I(0), I(500), I(3000), I(250000)},
     offset : {I(0), I(500)}]

\* The number of 5 m steps of the end stations of RangeCalls.
MaxRange == 5

\* solve_range from station 0 or 10 m to the end stations up to MaxRange
\* steps of 5 m and to 0.5e-6 m short of 20 m, at intervals of 5, 6 and
\* 10 m.
RangeCalls ==
    {c \in [op : {"solve_range"}, alignment : {AlignmentNorth},
            profile : {None, ProfileFlat},
            start_station : {I(0), I(50000)},
            end_station : {I(g * 25000) : g \in 0..MaxRange}
                          \cup {Q(39999999, 400)},
            interval : {I(25000), I(30000), I(50000)},
            offset : {I(0)}] :
        RLeq(c.start_station, c.end_station)}

\* Two 20 m curves that overlap between stations 40 m and 50 m, the PVI of
\* the first at the BVC of the second.
ProfileOverlap ==
    [pvis |-> <<PVI(0, 500000, 0), PVI(200000, 520000, 100000),
                PVI(250000, 510000, 100000), PVI(500000, 500000, 0)>>]

\* Two PVIs, each with an 8 m curve and a single neighbour.
ProfileEnds ==
    [pvis |-> <<PVI(0, 500000, 40000), PVI(100000, 510000, 40000)>>]

\* The stations of interest of a profile: of each PVI, its BVC, a quarter
\* into its curve, the PVI and its EVC; and the tangent in between.
ProfileStations(profile) ==
    UNION {{bvc_station(profile.pvis[k]),
            RAdd(bvc_station(profile.pvis[k]),
                 RDiv(profile.pvis[k].curve_length, I(4))),
            profile.pvis[k].station,
            evc_station(profile.pvis[k])} : k \in 1..Len(profile.pvis)}
        \cup {I(75000), I(350000)}

\* elevation_at_station on and off the curves of each profile.
ProfileCalls ==
    UNION {[op : {"elevation_at_station"}, profile : {profile},
            station : ProfileStations(profile)] :
              profile \in {ProfileFlat, ProfileCrest, ProfileOverlap,
                           ProfileEnds}}

Calls ==
    PointCalls \cup ElevationCalls \cup SampleCalls \cup RangeCalls
        \cup ProfileCalls

\* The state before a lookup call; no engine is involved.
CallInit ==
    /\ call \in Calls
    /\ result = None
    /\ pc = "calling"
    /\ supplied = None
    /\ engine = None
    /\ layout = None
    /\ i = 0
    /\ post_stations = <<>>
    /\ dist_since_expansion = I(0)
    /\ dist_since_contraction = I(0)
    /\ previous = None
    /\ assemblies = None
    /\ sta = None
    /\ points = None

\* HorizontalAlignment.point_at_station(station)
PointAtStation ==
    /\ pc = "calling"
    /\ call.op = "point_at_station"
    /\ result' = point_at_station(call.alignment, call.station)
    /\ pc' = "returned"
    /\ UNCHANGED <<supplied, engine, layout, i, post_stations,
                   dist_since_expansion, dist_since_contraction, previous,
                   assemblies, call>>
    /\ UNCHANGED <<sta, points>>

\* TerrainSurface.elevation_at at the vertex's easting and northing.
ElevationAt ==
    /\ pc = "calling"
    /\ call.op = "elevation_at"
    /\ result' = elevation_at(call.surface,
                              call.surface.vertices[call.vertex].x,
                              call.surface.vertices[call.vertex].y)
    /\ pc' = "returned"
    /\ UNCHANGED <<supplied, engine, layout, i, post_stations,
                   dist_since_expansion, dist_since_contraction, previous,
                   assemblies, call>>
    /\ UNCHANGED <<sta, points>>

\* TerrainSampler.sample_at_station(solver, station, offset): [ok |-> FALSE]
\* when solve raises.
sampler_sample_at_station(alignment, profile, surface, station, offset) ==
    LET Sampled(point) ==
            IF ~point.ok THEN [ok |-> FALSE]
            ELSE [ok |-> TRUE, value |-> sample_at_point(surface, point)]
    IN  Sampled(solve(alignment, profile, station, offset))

SampleAtStation ==
    /\ pc = "calling"
    /\ call.op = "sample_at_station"
    /\ result' = sampler_sample_at_station(call.alignment, call.profile,
                      call.surface, call.station, call.offset)
    /\ pc' = "returned"
    /\ UNCHANGED <<supplied, engine, layout, i, post_stations,
                   dist_since_expansion, dist_since_contraction, previous,
                   assemblies, call>>
    /\ UNCHANGED <<sta, points>>

\* VerticalProfile.elevation_at_station(station)
ElevationAtStation ==
    /\ pc = "calling"
    /\ call.op = "elevation_at_station"
    /\ result' = elevation_at_station(call.profile.pvis, call.station)
    /\ pc' = "returned"
    /\ UNCHANGED <<supplied, engine, layout, i, post_stations,
                   dist_since_expansion, dist_since_contraction, previous,
                   assemblies, call>>
    /\ UNCHANGED <<sta, points>>

\* The while loop of solve_range from station at on: the points it
\* appends.
RECURSIVE solve_range_from(_, _, _, _, _, _)
solve_range_from(alignment, profile, at, end_station, interval, offset) ==
    IF RLeq(at, RAdd(end_station, EPS))
    THEN <<solve(alignment, profile, RMin(at, end_station), offset)>>
         \o solve_range_from(alignment, profile, RAdd(at, interval),
                             end_station, interval, offset)
    ELSE <<>>

\* StationSolver.solve_range: [ok |-> FALSE] when a solve raises.
solve_range(alignment, profile, start_station, end_station, interval, offset) ==
    LET Points(solved) ==
            IF \E k \in 1..Len(solved) : ~solved[k].ok THEN [ok |-> FALSE]
            ELSE [ok |-> TRUE, points |-> solved]
    IN  Points(solve_range_from(alignment, profile, start_station,
                                end_station, interval, offset))

SolveRange ==
    /\ pc = "calling"
    /\ call.op = "solve_range"
    /\ result' = solve_range(call.alignment, call.profile, call.start_station,
                             call.end_station, call.interval, call.offset)
    /\ pc' = "returned"
    /\ UNCHANGED <<supplied, engine, layout, i, post_stations,
                   dist_since_expansion, dist_since_contraction, previous,
                   assemblies, call>>
    /\ UNCHANGED <<sta, points>>

CallNext ==
    \/ PointAtStation
    \/ ElevationAt
    \/ SampleAtStation
    \/ SolveRange
    \/ ElevationAtStation

CallSpec == CallInit /\ [][CallNext]_vars

\* The call has returned or raised.
CallDone(op) == pc = "returned" /\ call.op = op

(***************************************************************************)
(* StationSolver.solve_range step by step: the test of its while loop and  *)
(* the body, with the locals sta and len(points).  sta += interval is a    *)
(* double addition: where the loop's progress rests on it, its rounding    *)
(* is part of the model.                                                   *)
(***************************************************************************)
\* floor(log2 k) of an integer k >= 1.
RECURSIVE Log2(_)
Log2(k) == IF k < 2 THEN 0 ELSE 1 + Log2(k \div 2)

\* The bits of the mantissa of a double.
MantissaBits == 53

\* Whether the double x + y is x again: y # 0 is less than half a unit in
\* the last place of x.  Decided from the binary exponents, for the y with
\* |y| * 2^(MantissaBits + 1) < |x|; the sums of closer operands are taken
\* as exact.
Absorbed(x, y) ==
    /\ x.n # 0
    /\ y.n # 0
    /\ (Log2(Abs(y.n)) - Log2(y.d) + 1) + (MantissaBits + 1)
          <= Log2(Abs(x.n)) - Log2(x.d) - 1

\* x + y of two doubles.
float_add(x, y) == IF Absorbed(x, y) THEN x ELSE RAdd(x, y)

\* len(points) is followed up to MaxPoints: MaxPoints stands for that many
\* points or more.
MaxPoints == 6

\* A descending sta is followed down to -MaxDescent.
MaxDescent == 100000

\* A station 2^30 units (about 215 km) along, and an interval of 2^-30
\* unit (about 1.9e-13 m): more than 2^54 times smaller.
FarStation == 1073741824

TinyInterval == Q(1, 1073741824)

\* solve_range around the start of the alignment: ranges in order, reversed,
\* empty, and reversed by less than 1e-6 m, at intervals above, at and
\* below 0; and far along it, at an interval that cannot move sta there.
LoopCalls ==
    [op : {"solve_range"}, alignment : {AlignmentNorth, AlignmentEmpty},
     profile : {None}, start_station : {I(0), I(50000)},
     end_station : {I(0), I(100000), Q(-1, 400)},
     interval : {I(25000), I(30000), I(0), I(-25000)}, offset : {I(0)}]
    \cup
    [op : {"solve_range"}, alignment : {AlignmentNorth}, profile : {None},
     start_station : {I(FarStation), I(FarStation + 100000)},
     end_station : {I(FarStation + 50000)},
     interval : {I(25000), TinyInterval, RNeg(TinyInterval)},
     offset : {I(0)}]

\* solve_range has been called: points = [], sta = start_station.
LoopInit ==
    /\ call \in LoopCalls
    /\ result = None
    /\ pc = "loop_test"
    /\ sta = call.start_station
    /\ points = 0
    /\ supplied = None
    /\ engine = None
    /\ layout = None
    /\ i = 0
    /\ post_stations = <<>>
    /\ dist_since_expansion = I(0)
    /\ dist_since_contraction = I(0)
    /\ previous = None
    /\ assemblies = None

\* while sta <= end_station + 1e-6, taken as sta - end_station <= 1e-6;
\* past it, return points.
RangeTest ==
    /\ pc = "loop_test"
    /\ IF RLeq(RSub(sta, call.end_station), EPS)
       THEN /\ pc' = "loop_body"
            /\ UNCHANGED result
       ELSE /\ pc' = "returned"
            /\ result' = [ok |-> TRUE, len |-> points]
    /\ UNCHANGED <<sta, points, call>>
    /\ UNCHANGED <<supplied, engine, layout, i, post_stations,
                   dist_since_expansion, dist_since_contraction, previous,
                   assemblies>>

\* points.append(self.solve(min(sta, end_station), offset)); sta += interval
RangeBody ==
    /\ pc = "loop_body"
    /\ RLeq(I(-MaxDescent), sta)
    /\ IF ~solve(call.alignment, call.profile, RMin(sta, call.end_station),
                 call.offset).ok
       THEN /\ pc' = "raised"
            /\ result' = [ok |-> FALSE]
            /\ UNCHANGED <<sta, points>>
       ELSE /\ pc' = "loop_test"
            /\ points' = IF points < MaxPoints THEN points + 1 ELSE points
            /\ sta' = float_add(sta, call.interval)
            /\ UNCHANGED result
    /\ UNCHANGED call
    /\ UNCHANGED <<supplied, engine, layout, i, post_stations,
                   dist_since_expansion, dist_since_contraction, previous,
                   assemblies>>

LoopNext ==
    \/ RangeTest
    \/ RangeBody

\* The loop moves on from the test or the body (within the bound of the
\* descent), as a step of LoopNext does.
Advance ==
    /\ pc \in {"loop_test", "loop_body"}
    /\ pc = "loop_body" => RLeq(I(-MaxDescent), sta)
    /\ pc' \in {"loop_test", "loop_body", "returned", "raised"}

\* The interpreter goes on executing the loop: while a step can be taken,
\* one is taken.  Every step of LoopNext changes pc, and LoopNext is
\* enabled exactly where Advance is.
LoopSpec == LoopInit /\ [][LoopNext]_vars /\ WF_pc(Advance)

(***************************************************************************)
(* Properties of the layout compute() returns.                             *)
(***************************************************************************)
\* WallLayout.num_bays
num_bays(lay) == Len(lay.bays)

\* WallLayout.total_length
total_length(lay) == RSub(lay.end_station, lay.start_station)

\* C1: every layout compute() returns, for a PRECAST and for an
\* MSE_COMPOSITE wall, has one bay less than it has posts:
\* layout.num_bays == len(layout.posts) - 1.
C1_NumBaysIsPostsMinusOne ==
    Returned => num_bays(layout) = Len(layout.posts) - 1

\* A returned MSE_COMPOSITE layout of several bays.
C1_ReturnedCompositeLayout ==
    /\ Returned
    /\ layout.wall_type = "MSE_COMPOSITE"
    /\ Len(layout.mse_segments) > 0
    /\ num_bays(layout) >= 2

\* C2: after compute() there is one footing per post, and the footing at
\* position k has post_index == posts[k].index == k, the station, easting
\* and northing of posts[k], and its top at posts[k].ground_elevation.
C2_FootingsMirrorPosts ==
    Returned =>
        /\ Len(layout.footings) = Len(layout.posts)
        /\ \A k \in 1..Len(layout.posts) :
              /\ layout.footings[k].post_index = layout.posts[k].index
              /\ layout.posts[k].index = k - 1
              /\ layout.footings[k].station = layout.posts[k].station
              /\ layout.footings[k].easting = layout.posts[k].easting
              /\ layout.footings[k].northing = layout.posts[k].northing
              /\ layout.footings[k].top_elevation
                    = layout.posts[k].ground_elevation

\* A returned layout whose posts stand on ground of different, non-zero
\* elevations.
C2_FootingsOnVaryingGround ==
    /\ Returned
    /\ Len(layout.footings) >= 3
    /\ \E k \in 2..Len(layout.posts) :
          /\ layout.posts[k].ground_elevation.n # 0
          /\ layout.posts[k].ground_elevation
                # layout.posts[k - 1].ground_elevation

\* C3: after compute() len(layout.caps) == layout.num_bays; every bay
\* carries one cap, the cap k of the flat array is the cap of bay k with
\* cap.bay_index == bay.index, and no two caps belong to the same bay.
C3_OneCapPerBay ==
    Returned =>
        /\ Len(layout.caps) = num_bays(layout)
        /\ \A k \in 1..num_bays(layout) : layout.bays[k].cap # None
        /\ \A k \in 1..Len(layout.caps) :
              /\ k <= num_bays(layout)
              /\ layout.caps[k] = layout.bays[k].cap
              /\ layout.caps[k].bay_index = layout.bays[k].index
        /\ \A k, m \in 1..Len(layout.caps) :
              layout.caps[k].bay_index = layout.caps[m].bay_index => k = m

\* A returned layout of several bays whose panel stacks hold several panels.
C3_CapsOfSeveralBays ==
    /\ Returned
    /\ Len(layout.caps) >= 3
    /\ \A k \in 1..num_bays(layout) : Len(layout.bays[k].panels) >= 2

\* C4: whatever start_station and end_station the engine accepts, the post
\* stations are strictly increasing in index order and consecutive posts are
\* at most post_spacing + 1e-6 apart.
C4_StationsIncreaseWithinSpacing ==
    Returned =>
        \A k \in 1..(Len(layout.posts) - 1) :
            /\ RLess(layout.posts[k].station, layout.posts[k + 1].station)
            /\ RLeq(RSub(layout.posts[k + 1].station, layout.posts[k].station),
                    RAdd(engine.post_spacing, EPS))

\* The station start_station + k * (L / n) with L the wall's length.
EvenStation(lay, k, n) ==
    RAdd(lay.start_station, RDiv(RMul(I(k), total_length(lay)), I(n)))

\* N_bays = max(1, ceil(L / post_spacing))
ExpectedBays(lay, spacing) ==
    Max1(RCeil(RDiv(total_length(lay), spacing)))

\* C5: with L = end_station - start_station and
\* N_bays = max(1, ceil(L / post_spacing)), compute() emits N_bays + 1 posts
\* at start_station + k * (L / N_bays), k = 0..N_bays: the first at
\* start_station, the last at end_station; a wall of 100 m at spacing 10 m
\* has 11 posts, 10 bays and 10 caps.
C5_PostsEvenlySpaced ==
    Returned =>
        /\ Len(layout.posts) = ExpectedBays(layout, engine.post_spacing) + 1
        /\ \A k \in 1..Len(layout.posts) :
              layout.posts[k].station
                 = EvenStation(layout, k - 1,
                               ExpectedBays(layout, engine.post_spacing))
        /\ layout.posts[1].station = layout.start_station
        /\ layout.posts[Len(layout.posts)].station = layout.end_station
        /\ (total_length(layout) = I(500000) /\ engine.post_spacing = I(50000))
              => /\ Len(layout.posts) = 11
                 /\ num_bays(layout) = 10
                 /\ Len(layout.caps) = 10

\* The returned 100 m wall at spacing 10 m.
C5_HundredMetresAtTen ==
    /\ Returned
    /\ total_length(layout) = I(500000)
    /\ engine.post_spacing = I(50000)
    /\ Len(layout.posts) = 11

\* The panels of a bay tile its height from ground_elev.
PanelsTile(bay, ground_elev) ==
    /\ \A s \in 1..Len(bay.panels) :
          /\ bay.panels[s].stack_index = s - 1
          /\ bay.panels[s].bottom_elevation
                = RAdd(ground_elev, I((s - 1) * PANEL_HEIGHT))
          /\ panel_top_elevation(bay.panels[s])
                = RAdd(bay.panels[s].bottom_elevation, I(PANEL_HEIGHT))
    /\ \A s \in 1..(Len(bay.panels) - 1) :
          panel_top_elevation(bay.panels[s])
             = bay.panels[s + 1].bottom_elevation
    /\ bay.cap.bottom_elevation
          = RAdd(ground_elev, I(Len(bay.panels) * PANEL_HEIGHT))

\* C6: in every bay of n panels, with ground_elev the lower of its two
\* posts' ground elevations, the panel of stack_index k (each of 0..n-1
\* once) has its bottom at ground_elev + k * panel_height and its top one
\* panel_height above, so the stack has no gap or overlap, and the cap's
\* bottom is at ground_elev + n * panel_height.
C6_PanelsTileTheBay ==
    Returned =>
        \A k \in 1..num_bays(layout) :
            PanelsTile(layout.bays[k],
                       RMin(layout.bays[k].post_left.ground_elevation,
                            layout.bays[k].post_right.ground_elevation))

\* A returned layout with a bay of several panels whose right post stands
\* lower than its left post.
C6_BayOnFallingGround ==
    /\ Returned
    /\ \E k \in 1..num_bays(layout) :
          /\ Len(layout.bays[k].panels) >= 2
          /\ RLess(layout.bays[k].post_right.ground_elevation,
                   layout.bays[k].post_left.ground_elevation)

\* n = max(1, ceil((top_elev - ground_elev - cap_height) / panel_height))
ExpectedPanels(left, right) ==
    Max1(RCeil(RDiv(RSub(RSub(RMax(left.top_elevation, right.top_elevation),
                              RMin(left.ground_elevation,
                                   right.ground_elevation)),
                         I(CAP_HEIGHT)),
                    I(PANEL_HEIGHT))))

\* Every post of lay stands on the same ground elevation.
FlatGround(lay) ==
    \A k, m \in 1..Len(lay.posts) :
        lay.posts[k].ground_elevation = lay.posts[m].ground_elevation

\* The 100 m wall at post spacing 3.048 m and wall height 4.572 m.
HundredMetreWall ==
    /\ total_length(layout) = I(500000)
    /\ engine.post_spacing = I(POST_SPACING_MAX)
    /\ layout.wall_height = I(DEFAULT_WALL_HEIGHT)

\* C7: each bay has n = max(1, ceil((top_elev - ground_elev - cap_height)
\* / panel_height)) panels, ground_elev the lower ground and top_elev the
\* higher top of its two posts; on flat ground with wall_height 4.572 that
\* is 6 per bay, and the 100 m wall at spacing 3.048 has 34 posts, 33 bays,
\* 33 caps and 198 panels.
C7_PanelCount ==
    Returned =>
        /\ \A k \in 1..num_bays(layout) :
              Len(layout.bays[k].panels)
                 = ExpectedPanels(layout.bays[k].post_left,
                                  layout.bays[k].post_right)
        /\ (FlatGround(layout) /\ layout.wall_height = I(DEFAULT_WALL_HEIGHT))
              => \A k \in 1..num_bays(layout) : Len(layout.bays[k].panels) = 6
        /\ (FlatGround(layout) /\ HundredMetreWall)
              => /\ Len(layout.posts) = 34
                 /\ num_bays(layout) = 33
                 /\ Len(layout.caps) = 33
                 /\ Len(layout.panels) = 198

\* The returned 100 m wall on flat ground with its 198 panels.
C7_HundredMetreWallReturned ==
    /\ Returned
    /\ FlatGround(layout)
    /\ HundredMetreWall
    /\ Len(layout.panels) = 198

\* The 1-based indices of the posts that carry an EXPANSION joint: the
\* joint of bay_index b stands at the right post of bay b.
ExpansionPosts(lay) ==
    {lay.joints[j].bay_index + 2 :
        j \in {m \in 1..Len(lay.joints) :
                  lay.joints[m].joint_type = "EXPANSION"}}

\* The cumulative length of the bays between post p and post q.
RECURSIVE CumulativeBayLength(_, _, _)
CumulativeBayLength(lay, p, q) ==
    IF p >= q THEN I(0)
    ELSE RAdd(RSub(lay.posts[p + 1].station, lay.posts[p].station),
              CumulativeBayLength(lay, p + 1, q))

\* q is the first member of marks after p.
NextAfter(marks, p, q) ==
    /\ q \in marks
    /\ p < q
    /\ \A r \in marks : ~(p < r /\ r < q)

NumExpansionJoints(lay) ==
    Cardinality({m \in 1..Len(lay.joints) :
                    lay.joints[m].joint_type = "EXPANSION"})

EmptyLayout(lay) ==
    /\ lay.posts = <<>> /\ lay.panels = <<>> /\ lay.footings = <<>>
    /\ lay.caps = <<>> /\ lay.joints = <<>> /\ lay.drainage_slots = <<>>
    /\ lay.bays = <<>> /\ lay.mse_segments = <<>>

\* C10: when the station range is empty (start_station == end_station) or
\* reversed (end_station < start_station), compute() does not raise, and
\* the layout it returns has no posts, panels, footings, caps, joints,
\* drainage slots, bays or MSE segments.
C10_EmptyOrReversedRangeGivesEmptyLayout ==
    RLeq(engine.end_station, engine.start_station) =>
        /\ pc # "raised"
        /\ Returned => EmptyLayout(layout)

\* Segment k of segments holds the station, by the test of point_at_station.
Brackets(segments, k, station) ==
    /\ RLeq(segments[k].start_station, station)
    /\ RLeq(station, RAdd(segments[k].end_station, EPS))

\* C11: point_at_station(s) never raises, for any alignment and station: a
\* station below the alignment's start gives the first segment's start
\* point, a station above its end the last segment's end point, and a
\* station inside the range the point of a segment that brackets it.
C11_PointAtStationNeverRaises ==
    CallDone("point_at_station") =>
        /\ result.ok
        /\ RLess(call.station, alignment_start_station(call.alignment))
              => result = seg_point_at_station(call.alignment[1],
                              call.alignment[1].start_station)
        /\ RLess(alignment_end_station(call.alignment), call.station)
              => result = seg_point_at_station(
                              call.alignment[Len(call.alignment)],
                              call.alignment[Len(call.alignment)].end_station)
        /\ (/\ RLeq(alignment_start_station(call.alignment), call.station)
            /\ RLeq(call.station, alignment_end_station(call.alignment)))
              => \E k \in 1..Len(call.alignment) :
                    /\ Brackets(call.alignment, k, call.station)
                    /\ result = seg_point_at_station(call.alignment[k],
                                                     call.station)

\* The default dimensions of a footing of its type.
DefaultDimensions(footing) ==
    /\ footing.foundation_type = "CAISSON"
          => /\ footing.diameter = CAISSON_DIAMETER
             /\ footing.depth = CAISSON_DEPTH
    /\ footing.foundation_type = "SPREAD_FOOTING"
          => /\ footing.length = SPREAD_LENGTH
             /\ footing.width = SPREAD_WIDTH
             /\ footing.depth = SPREAD_DEPTH
    /\ footing.foundation_type = "CONTINUOUS_FOOTING"
          => /\ footing.width = CONTINUOUS_WIDTH
             /\ footing.depth = CONTINUOUS_DEPTH

\* C12: every footing of the layout has the configured foundation_type
\* (CAISSON, SPREAD or CONTINUOUS) and the default dimensions of that type:
\* diameter 0.762 and depth 3.048 for a caisson, 1.524 x 1.524 x 0.762 for a
\* spread footing, width 0.914 and depth 0.610 for a continuous footing.
C12_FootingsOfConfiguredType ==
    Returned =>
        \A k \in 1..Len(layout.footings) :
            /\ layout.footings[k].foundation_type = engine.foundation_type
            /\ DefaultDimensions(layout.footings[k])

\* The station the wall is configured to start at: the supplied
\* start_station, the alignment's start when none is supplied.
ConfiguredStart ==
    IF supplied.start_station # None THEN supplied.start_station
    ELSE alignment_start_station(supplied.alignment)

\* The station the wall is configured to end at.
ConfiguredEnd ==
    IF supplied.end_station # None THEN supplied.end_station
    ELSE alignment_end_station(supplied.alignment)

\* C13: the wall is laid out over the supplied start_station and
\* end_station whenever they are supplied, 0 included, and over the
\* alignment's start and end only when they are not; layout.start_station,
\* layout.end_station and the first and the last post station follow.
C13_SuppliedStationsAreUsed ==
    Returned =>
        /\ layout.start_station = ConfiguredStart
        /\ layout.end_station = ConfiguredEnd
        /\ layout.posts[1].station = ConfiguredStart
        /\ layout.posts[Len(layout.posts)].station = ConfiguredEnd

\* N_seg = max(1, ceil(L / expansion_joint_spacing))
ExpectedSegments(lay) ==
    Max1(RCeil(RDiv(total_length(lay), I(EXPANSION_JOINT_SPACING))))

\* MSESegment.length
mse_length(segment) == RSub(segment.station_end, segment.station_start)

\* C14: for an MSE_COMPOSITE wall of length L = end_station - start_station
\* compute() emits N_seg = max(1, ceil(L / expansion_joint_spacing)) MSE
\* segments of index 0..N_seg-1, each L / N_seg long, each ending where the
\* next starts, the first starting at start_station and the last ending at
\* end_station; a 100 m wall has 5 segments of 20 m.
C14_MseSegmentsDivideTheWall ==
    (Returned /\ layout.wall_type = "MSE_COMPOSITE") =>
        /\ Len(layout.mse_segments) = ExpectedSegments(layout)
        /\ \A k \in 1..Len(layout.mse_segments) :
              /\ layout.mse_segments[k].index = k - 1
              /\ mse_length(layout.mse_segments[k])
                    = RDiv(total_length(layout), I(ExpectedSegments(layout)))
        /\ \A k \in 1..(Len(layout.mse_segments) - 1) :
              layout.mse_segments[k].station_end
                 = layout.mse_segments[k + 1].station_start
        /\ layout.mse_segments[1].station_start = layout.start_station
        /\ layout.mse_segments[Len(layout.mse_segments)].station_end
              = layout.end_station
        /\ total_length(layout) = I(500000)
              => /\ Len(layout.mse_segments) = 5
                 /\ \A k \in 1..5 :
                       mse_length(layout.mse_segments[k]) = I(100000)

\* The returned 100 m MSE_COMPOSITE wall with its 5 segments.
C14_HundredMetreMseWall ==
    /\ Returned
    /\ layout.wall_type = "MSE_COMPOSITE"
    /\ total_length(layout) = I(500000)
    /\ Len(layout.mse_segments) = 5

\* The precast parts of two layouts are the same.
SamePrecastParts(a, b) ==
    /\ a.posts = b.posts
    /\ a.footings = b.footings
    /\ a.bays = b.bays
    /\ a.panels = b.panels
    /\ a.caps = b.caps
    /\ a.joints = b.joints
    /\ a.drainage_slots = b.drainage_slots

\* C15: for the same alignment, profile, surface and parameters the posts,
\* footings, bays, panels, caps, joints and drainage slots of an
\* MSE_COMPOSITE layout are those of the PRECAST layout, and a PRECAST
\* layout has no MSE segments.
C15_CompositeHasThePrecastParts ==
    Returned =>
        /\ (previous # None /\ previous.wall_type # layout.wall_type)
              => SamePrecastParts(layout, previous)
        /\ layout.wall_type = "PRECAST" => layout.mse_segments = <<>>

\* An MSE_COMPOSITE layout returned after the PRECAST layout of the same
\* arguments, with posts on ground that is not at elevation 0.
C15_CompositeAfterPrecast ==
    /\ Returned
    /\ previous # None
    /\ previous.wall_type = "PRECAST"
    /\ layout.wall_type = "MSE_COMPOSITE"
    /\ Len(layout.mse_segments) > 0
    /\ Len(layout.panels) >= 2
    /\ layout.posts[1].ground_elevation.n # 0

\* C16: compute() is deterministic and keeps no state between calls: a
\* second call on the same engine, or on an engine built from equal
\* arguments, returns a layout equal to the first in every array, and no
\* call changes the engine's configuration, alignment, profile or surface.
C16_ComputeIsRepeatable ==
    /\ (Returned /\ previous # None /\ previous.wall_type = layout.wall_type)
          => layout = previous
    /\ engine # None => engine = NewEngine(supplied)

\* A layout with joints and drainage slots returned by a second call.
C16_SecondLayoutReturned ==
    /\ Returned
    /\ previous # None
    /\ previous.wall_type = layout.wall_type
    /\ Len(layout.joints) >= 2
    /\ Len(layout.drainage_slots) >= 1

\* The children of kind `kind` of the assemblies, as <<assembly, child>>
\* positions.
ChildrenOfKind(built, kind) ==
    {ac \in UNION {{<<a, c>> : c \in 1..Len(built.assemblies[a].children)} :
                      a \in 1..Len(built.assemblies)} :
        built.assemblies[ac[1]].children[ac[2]].kind = kind}

\* The 1-based position of the first bay that has post p at one of its ends.
FirstBayAt(lay, p) ==
    First({k \in 1..Len(lay.bays) :
              lay.bays[k].post_left.index = p \/ lay.bays[k].post_right.index = p})

\* Each of the indices 0..count-1 is built once as a child of kind `kind`,
\* in the assembly of the first bay at that post.
BuiltOnceAtFirstBay(lay, built, kind, count) ==
    /\ Cardinality(ChildrenOfKind(built, kind)) = count
    /\ \A p \in 0..(count - 1) :
          \E ac \in ChildrenOfKind(built, kind) :
              /\ built.assemblies[ac[1]].children[ac[2]].index = p
              /\ ac[1] = FirstBayAt(lay, p)

C17_ElevationAtVertexIsItsZ ==
    CallDone("elevation_at") =>
        /\ result # None
        /\ RLeq(RAbs(RSub(result, call.surface.vertices[call.vertex].z)), EPS)

\* The point the sampler looks up: the alignment's point at the station,
\* moved by the offset.
SampledPoint(c) == solve(c.alignment, c.profile, c.station, c.offset)

\* The profile elevation at the station, 0 without a profile.
ProfileElevation(c) ==
    IF c.profile = None \/ c.profile.pvis = <<>> THEN I(0)
    ELSE elevation_at_station(c.profile.pvis, c.station)

\* Some triangle of the surface of call c contains the point.
TinCovers(c, point) ==
    /\ c.surface # None
    /\ \E t \in 1..Len(c.surface.triangles) :
          point_in_triangle(point.easting, point.northing,
              c.surface.vertices[c.surface.triangles[t][1]],
              c.surface.vertices[c.surface.triangles[t][2]],
              c.surface.vertices[c.surface.triangles[t][3]]) # None

\* C18: sample_at_station never raises; it returns the TIN elevation at the
\* offset point when there is a surface and a triangle contains the point,
\* and in every other case the profile elevation at the station, which is 0
\* when there is no profile.
C18_SamplerFallsBackToProfile ==
    CallDone("sample_at_station") =>
        /\ result.ok
        /\ TinCovers(call, SampledPoint(call))
              => result.value = elevation_at(call.surface,
                                             SampledPoint(call).easting,
                                             SampledPoint(call).northing)
        /\ ~TinCovers(call, SampledPoint(call))
              => result.value = ProfileElevation(call)

\* s1 - s0 is a whole multiple of the interval.
WholeSteps(c) ==
    RMod(RSub(c.end_station, c.start_station), c.interval) = I(0)

\* C19: for s0 <= s1 and interval > 0, solve_range(s0, s1, interval)
\* returns samples at s0, s0 + interval, s0 + 2 * interval, ... in
\* increasing order, none beyond s1, the final one at s1 also when s1 - s0
\* is no multiple of the interval; when s1 - s0 = k * interval there are
\* k + 1 samples.
C19_SolveRangeEndsAtEnd ==
    CallDone("solve_range") =>
        /\ result.ok
        /\ Len(result.points) >= 1
        /\ \A k \in 1..(Len(result.points) - 1) :
              /\ result.points[k].station
                    = RAdd(call.start_station, RMul(I(k - 1), call.interval))
              /\ RLess(result.points[k].station, result.points[k + 1].station)
        /\ \A k \in 1..Len(result.points) :
              RLeq(result.points[k].station, call.end_station)
        /\ result.points[Len(result.points)].station = call.end_station
        /\ WholeSteps(call)
              => Len(result.points)
                    = RFloor(RDiv(RSub(call.end_station, call.start_station),
                                  call.interval)) + 1

\* The iteration of the joint walk for bay i, as specified: both counters
\* grow by the bay's length; an EXPANSION joint at the right post when
\* d_exp has reached the expansion spacing, both counters back to 0;
\* otherwise a CONTRACTION joint there when d_con has reached the
\* contraction spacing, only d_con back to 0; otherwise no joint.
WalkStepAsSpecified ==
    LET left == layout.posts[i + 1]
        right == layout.posts[i + 2]
        bay_length == RSub(right.station, left.station)
        e == RAdd(dist_since_expansion, bay_length)
        c == RAdd(dist_since_contraction, bay_length)
        added == SubSeq(layout'.joints, Len(layout.joints) + 1,
                        Len(layout'.joints))
        One(joint_type) ==
            /\ Len(added) = 1
            /\ added[1].joint_type = joint_type
            /\ added[1].station = right.station
            /\ added[1].bay_index = i
    IN  /\ SubSeq(layout'.joints, 1, Len(layout.joints)) = layout.joints
        /\ IF RLeq(I(EXPANSION_JOINT_SPACING), e)
           THEN /\ One("EXPANSION")
                /\ dist_since_expansion' = I(0)
                /\ dist_since_contraction' = I(0)
           ELSE IF RLeq(I(CONTRACTION_JOINT_SPACING), c)
           THEN /\ One("CONTRACTION")
                /\ dist_since_expansion' = e
                /\ dist_since_contraction' = I(0)
           ELSE /\ added = <<>>
                /\ dist_since_expansion' = e
                /\ dist_since_contraction' = c
        /\ pc' = "joints" => i' = i + 1

\* C21: the joint walk starts with both counters at 0 and visits the bay
\* boundaries in order; at each it adds the bay's length to d_exp and d_con,
\* emits an EXPANSION joint at the right post and resets both when d_exp has
\* reached the expansion spacing, else emits a CONTRACTION joint and resets
\* only d_con when d_con has reached the contraction spacing; no boundary
\* gets two joints and a CONTRACTION joint never resets d_exp.
C21_JointWalkFollowsTheCounters ==
    [][/\ (pc # "joints" /\ pc' = "joints") =>
              /\ i' = 0
              /\ dist_since_expansion' = I(0)
              /\ dist_since_contraction' = I(0)
       /\ pc = "joints" => WalkStepAsSpecified]_vars

\* The walk just after a CONTRACTION joint that follows an EXPANSION joint:
\* d_con is back at 0 and d_exp is not.
C21_ContractionAfterExpansion ==
    /\ pc = "joints"
    /\ Len(layout.joints) >= 2
    /\ layout.joints[Len(layout.joints)].joint_type = "CONTRACTION"
    /\ layout.joints[Len(layout.joints)].bay_index = i - 1
    /\ \E m \in 1..Len(layout.joints) : layout.joints[m].joint_type = "EXPANSION"
    /\ dist_since_contraction = I(0)
    /\ dist_since_expansion # I(0)

\* Whether length is the distance chord that Hypot gave: chord itself, or
\* the root of its radicand.
SameLength(length, chord) ==
    IF "sqrt_of" \in DOMAIN chord
    THEN ~RLess(length, I(0)) /\ RMul(length, length) = chord.sqrt_of
    ELSE length = chord

\* C22: the length the joint walk adds to d_exp and d_con at the right post
\* of bay i is that bay's chord length, the 2-D distance between its posts
\* that is also the width of its panels and cap (stated for the bays whose
\* stations increase, the ones of a wall laid out forward).
C22_CountersGrowByTheChord ==
    [][(/\ pc = "joints"
        /\ RLess(layout.posts[i + 1].station, layout.posts[i + 2].station)) =>
          LET chord == layout.bays[i + 1].panels[1].width
              Grown(new, old) ==
                  new # I(0) => SameLength(RSub(new, old), chord)
          IN  /\ layout.bays[i + 1].cap.width = chord
              /\ Grown(dist_since_expansion', dist_since_expansion)
              /\ Grown(dist_since_contraction', dist_since_contraction)]_vars

\* Whether the bay between left and right is due a drainage slot:
\* ((bay_mid_station - start_station) mod drainage_spacing) < post_spacing.
DrainageDue(left, right) ==
    LET mid == RDiv(RAdd(left.station, right.station), I(2))
    IN  RLess(RMod(RSub(mid, engine.start_station), I(DRAINAGE_SLOT_SPACING)),
              engine.post_spacing)

\* The entries of the flat drainage_slots of lay that name bay index ix.
SlotsOfBay(lay, ix) ==
    {m \in 1..Len(lay.drainage_slots) :
        lay.drainage_slots[m].panel_bay_index = ix}

\* C23: the bottom panel of a bay has a drainage slot exactly when
\* ((bay_mid_station - start_station) mod drainage_spacing) < post_spacing;
\* no panel above the bottom one has a slot; the bay's drainage_slots and the
\* flat drainage_slots hold exactly one DrainageSlot naming the bay for each
\* such panel and none otherwise.
C23_DrainageSlotsWhereDue ==
    Returned =>
        /\ \A b \in 1..Len(layout.bays) :
              LET bay == layout.bays[b]
                  due == DrainageDue(bay.post_left, bay.post_right)
                  count == IF due THEN 1 ELSE 0
              IN  /\ bay.panels[1].has_drainage_slot = due
                  /\ \A s \in 2..Len(bay.panels) :
                        /\ bay.panels[s].stack_index > 0
                        /\ ~bay.panels[s].has_drainage_slot
                  /\ Len(bay.drainage_slots) = count
                  /\ \A m \in 1..Len(bay.drainage_slots) :
                        bay.drainage_slots[m].panel_bay_index = bay.index
                  /\ Cardinality(SlotsOfBay(layout, bay.index)) = count
        /\ \A m \in 1..Len(layout.drainage_slots) :
              \E b \in 1..Len(layout.bays) :
                  layout.bays[b].index = layout.drainage_slots[m].panel_bay_index

\* A returned wall that does not start at station 0, with a bay that has a
\* drainage slot and a bay that has none.
C23_SlottedAndPlainBays ==
    /\ Returned
    /\ engine.start_station # I(0)
    /\ \E b, c \in 1..Len(layout.bays) :
          /\ Len(layout.bays[b].drainage_slots) = 1
          /\ layout.bays[b].panels[1].has_drainage_slot
          /\ Len(layout.bays[c].drainage_slots) = 0
          /\ ~layout.bays[c].panels[1].has_drainage_slot

\* C24: a bay's references agree with the flat arrays: bays[i].index is i,
\* its posts are posts[i] and posts[i + 1], its footings footings[i] and
\* footings[i + 1], every panel, the cap and every drainage slot of the bay
\* carry bay index i, and none of them is absent.
C24_BaysReferToTheFlatArrays ==
    Returned =>
        \A b \in 1..Len(layout.bays) :
            LET bay == layout.bays[b]
            IN  /\ bay.index = b - 1
                /\ bay.post_left = layout.posts[b]
                /\ bay.post_right = layout.posts[b + 1]
                /\ bay.footing_left # None
                /\ bay.footing_right # None
                /\ bay.footing_left = layout.footings[b]
                /\ bay.footing_right = layout.footings[b + 1]
                /\ bay.cap # None
                /\ bay.cap.bay_index = b - 1
                /\ Len(bay.panels) >= 1
                /\ \A s \in 1..Len(bay.panels) : bay.panels[s].bay_index = b - 1
                /\ \A m \in 1..Len(bay.drainage_slots) :
                      bay.drainage_slots[m].panel_bay_index = b - 1

\* A returned layout of several bays whose posts and footings all differ.
C24_SeveralBaysDistinctPosts ==
    /\ Returned
    /\ Len(layout.bays) >= 3
    /\ \A k, m \in 1..Len(layout.posts) :
          k # m => /\ layout.posts[k] # layout.posts[m]
                   /\ layout.footings[k] # layout.footings[m]
    /\ \E b \in 1..Len(layout.bays) : Len(layout.bays[b].drainage_slots) = 1

\* The concatenation of a sequence of sequences, in order.
RECURSIVE Concatenation(_)
Concatenation(seqs) ==
    IF seqs = <<>> THEN <<>> ELSE Head(seqs) \o Concatenation(Tail(seqs))

\* The sum of a sequence of numbers.
RECURSIVE Sum(_)
Sum(numbers) ==
    IF numbers = <<>> THEN 0 ELSE Head(numbers) + Sum(Tail(numbers))

\* C25: the flat arrays keep the serial order: layout.panels is the
\* concatenation of the bays' panels in bay order, layout.caps the bays' caps
\* in bay order, layout.drainage_slots and layout.joints the concatenations
\* of the bays' drainage slots and joints; len(layout.panels) is the sum of
\* the bays' panel counts.
C25_FlatArraysInBayOrder ==
    Returned =>
        LET bays == layout.bays
            Of(Part(_)) == [b \in 1..Len(bays) |-> Part(bays[b])]
            Panels(bay) == bay.panels
            Slots(bay) == bay.drainage_slots
            Joints(bay) == bay.joints
            Cap(bay) == bay.cap
            Count(bay) == Len(bay.panels)
        IN  /\ layout.panels = Concatenation(Of(Panels))
            /\ layout.caps = Of(Cap)
            /\ layout.drainage_slots = Concatenation(Of(Slots))
            /\ layout.joints = Concatenation(Of(Joints))
            /\ Len(layout.panels) = Sum(Of(Count))

\* A returned layout of several bays of several panels each, with several
\* drainage slots and joints, and bays without a slot or a joint.
C25_SeveralBaysSlotsAndJoints ==
    /\ Returned
    /\ Len(layout.bays) >= 3
    /\ Len(layout.drainage_slots) >= 2
    /\ Len(layout.joints) >= 2
    /\ \A b \in 1..Len(layout.bays) : Len(layout.bays[b].panels) >= 2
    /\ \E b, c \in 1..Len(layout.bays) :
          /\ layout.bays[b].drainage_slots = <<>>
          /\ layout.bays[c].joints = <<>>

\* The PVIs of pvis whose curve (of length > 0) holds station.
CurvesAt(pvis, station) ==
    {k \in 1..Len(pvis) :
        /\ RLess(I(0), pvis[k].curve_length)
        /\ RLeq(RSub(pvis[k].station, RDiv(pvis[k].curve_length, I(2))), station)
        /\ RLeq(station, RAdd(pvis[k].station, RDiv(pvis[k].curve_length, I(2))))}

\* The grade from PVI k to PVI k + 1 of pvis, 0 when either does not exist.
GradeAfter(pvis, k) ==
    IF k < 1 \/ k + 1 > Len(pvis) THEN I(0)
    ELSE RDiv(RSub(pvis[k + 1].elevation, pvis[k].elevation),
              RSub(pvis[k + 1].station, pvis[k].station))

\* C26: for a profile of at least two PVIs and a station within the curve
\* (BVC <= s <= EVC, curve_length L > 0) of some PVI, elevation_at_station
\* returns the parabola of the first such PVI in list order,
\* z_PVI - g_in*L/2 + g_in*x + ((g_out - g_in)/(2L))*x^2 with x = s - BVC and
\* g_in, g_out the grades from the previous and to the next PVI (0 without
\* that neighbour); at the PVI's station that is z_PVI + (g_out - g_in)*L/8,
\* and at the BVC and EVC of a PVI with both neighbours the value of the
\* adjoining tangent.
C26_ParabolaOfTheFirstCurve ==
    (/\ CallDone("elevation_at_station")
     /\ Len(call.profile.pvis) >= 2
     /\ CurvesAt(call.profile.pvis, call.station) # {}) =>
        LET pvis == call.profile.pvis
            s == call.station
            k == CHOOSE c \in CurvesAt(pvis, s) :
                     \A o \in CurvesAt(pvis, s) : c <= o
            z == pvis[k].elevation
            L == pvis[k].curve_length
            g_in == GradeAfter(pvis, k - 1)
            g_out == GradeAfter(pvis, k)
            bvc == RSub(pvis[k].station, RDiv(L, I(2)))
            evc == RAdd(pvis[k].station, RDiv(L, I(2)))
            x == RSub(s, bvc)
            both == k > 1 /\ k < Len(pvis)
        IN  /\ result =
                  RAdd(RAdd(RSub(z, RDiv(RMul(g_in, L), I(2))), RMul(g_in, x)),
                       RMul(RMul(RDiv(RSub(g_out, g_in), RMul(I(2), L)), x), x))
            /\ s = pvis[k].station =>
                  result = RAdd(z, RDiv(RMul(RSub(g_out, g_in), L), I(8)))
            /\ (both /\ s = bvc) =>
                  result = RAdd(pvis[k - 1].elevation,
                                RMul(g_in, RSub(s, pvis[k - 1].station)))
            /\ (both /\ s = evc) =>
                  result = RSub(pvis[k + 1].elevation,
                                RMul(g_out, RSub(pvis[k + 1].station, s)))

\* elevation_at_station has returned for a station that two curves hold,
\* the PVI of the first and the BVC of the second.
C26_StationOnTwoCurves ==
    /\ CallDone("elevation_at_station")
    /\ Cardinality(CurvesAt(call.profile.pvis, call.station)) = 2
    /\ \E k \in CurvesAt(call.profile.pvis, call.station) :
          call.station = call.profile.pvis[k].station
    /\ \E k \in CurvesAt(call.profile.pvis, call.station) :
          call.station = bvc_station(call.profile.pvis[k])
    /\ result # call.profile.pvis[2].elevation

\* C27: at every moment the joints of the layout are in strictly increasing
\* station order, at most one per bay and none at the first post; the joint
\* with bay_index i has the station, position, ground and top elevation of
\* posts[i + 1] and is the only entry of bays[i].joints.
C27_JointsInOrderAtRightPosts ==
    layout # None =>
        LET joints == layout.joints
        IN  /\ \A m \in 1..(Len(joints) - 1) :
                  /\ RLess(joints[m].station, joints[m + 1].station)
                  /\ joints[m].bay_index < joints[m + 1].bay_index
            /\ \A m \in 1..Len(joints) :
                  /\ joints[m].bay_index \in 0..(Len(layout.bays) - 1)
                  /\ joints[m].station # layout.posts[1].station
                  /\ LET post == layout.posts[joints[m].bay_index + 2]
                     IN  /\ joints[m].station = post.station
                         /\ joints[m].easting = post.easting
                         /\ joints[m].northing = post.northing
                         /\ joints[m].ground_elevation = post.ground_elevation
                         /\ joints[m].top_elevation = post.top_elevation
                  /\ layout.bays[joints[m].bay_index + 1].joints = <<joints[m]>>
            /\ \A b \in 1..Len(layout.bays) :
                  /\ Len(layout.bays[b].joints) <= 1
                  /\ \A m \in 1..Len(layout.bays[b].joints) :
                        \E k \in 1..Len(joints) :
                            joints[k] = layout.bays[b].joints[m]

\* A returned layout on sloping ground with several joints, at posts of
\* different ground elevation, and with bays that have no joint.
C27_JointsOnSlopingGround ==
    /\ Returned
    /\ \E k, m \in 1..Len(layout.joints) :
          layout.joints[k].ground_elevation # layout.joints[m].ground_elevation
    /\ \E k \in 1..Len(layout.joints) :
          layout.joints[k].ground_elevation # layout.posts[1].ground_elevation
    /\ \E b \in 1..Len(layout.bays) : layout.bays[b].joints = <<>>

\* The 1-based indices of the posts that carry a joint of either type.
JointPosts(lay) == {lay.joints[m].bay_index + 2 : m \in 1..Len(lay.joints)}

\* The last member of marks before post q, the first post when there is
\* none.
LastBefore(marks, q) ==
    LET before == {p \in marks : p < q}
    IN  IF before = {} THEN 1
        ELSE CHOOSE p \in before : \A r \in before : r <= p

C29_CapReachesThePostTops ==
    Returned =>
        \A b \in 1..Len(layout.bays) :
            LET bay == layout.bays[b]
                top == RMax(bay.post_left.top_elevation,
                            bay.post_right.top_elevation)
                ground == RMin(bay.post_left.ground_elevation,
                               bay.post_right.ground_elevation)
            IN  /\ RLeq(top, RAdd(bay.cap.bottom_elevation, I(bay.cap.height)))
                /\ bay.cap.height = CAP_HEIGHT
                /\ RLess(I(0), RSub(RSub(top, ground), I(CAP_HEIGHT))) =>
                      RLess(bay.cap.bottom_elevation,
                            RAdd(RSub(top, I(CAP_HEIGHT)), I(PANEL_HEIGHT)))

\* A returned layout with a bay on sloping ground whose cap stands above
\* its higher post top, and a bay whose cap ends exactly at the post tops.
C29_CapAboveAndAtThePostTops ==
    /\ Returned
    /\ \E b \in 1..Len(layout.bays) :
          LET bay == layout.bays[b]
          IN  /\ bay.post_left.ground_elevation # bay.post_right.ground_elevation
              /\ RLess(RMax(bay.post_left.top_elevation,
                            bay.post_right.top_elevation),
                       RAdd(bay.cap.bottom_elevation, I(bay.cap.height)))
    /\ \E b \in 1..Len(layout.bays) :
          LET bay == layout.bays[b]
          IN  RAdd(bay.cap.bottom_elevation, I(bay.cap.height))
                  = RMax(bay.post_left.top_elevation,
                         bay.post_right.top_elevation)

\* The calls for which the while test of solve_range holds on entry:
\* s0 <= s1 + 1e-6.
RunningCalls ==
    {c \in LoopCalls : RLeq(RSub(c.start_station, c.end_station), EPS)}

RangeRuns == call \in RunningCalls

\* The calls whose interval, added to x, gives x again.
AbsorbedAtStart ==
    {c \in LoopCalls : Absorbed(c.start_station, c.interval)}

AbsorbedAtLargest ==
    {c \in LoopCalls :
        Absorbed(RMax(RAbs(c.start_station), RAbs(c.end_station)), c.interval)}

\* solve_range has returned or raised.
RangeEnded == pc = "returned" \/ pc = "raised"

\* C30, as stated: solve_range(s0, s1, interval) terminates for every
\* interval > 0, with an empty list when s0 > s1 + 1e-6; for interval <= 0
\* it terminates only when s0 > s1 + 1e-6, and with interval <= 0 and
\* s0 <= s1 it never ends.
C30_TerminatesIffIntervalPositive ==
    /\ call.interval.n > 0 => <>RangeEnded
    /\ (call.interval.n > 0 /\ ~RangeRuns) => <>(pc = "returned" /\ points = 0)
    /\ (call.interval.n <= 0 /\ ~RangeRuns) => <>(pc = "returned")
    /\ (call.interval.n <= 0 /\ RangeRuns) => [](pc # "returned")

\* What the loop does instead: solve_range(s0, s1, interval) ends for every
\* interval > 0 that is large enough to change sta when added to it at the
\* stations of the range, and for every interval when s0 > s1 + 1e-6, then
\* with an empty list; with s0 <= s1 + 1e-6 and an interval that is <= 0 or
\* too small to change s0 when added to it, it never returns: the loop goes
\* on for ever unless a solve raises.
EndsIffStaAdvances ==
    /\ (call.interval.n > 0 /\ call \notin AbsorbedAtLargest) => <>RangeEnded
    /\ ~RangeRuns => <>(pc = "returned" /\ points = 0)
    /\ ((call.interval.n <= 0 \/ call \in AbsorbedAtStart)
        /\ RangeRuns) => [](pc # "returned")
    /\ ((call.interval.n <= 0 \/ call \in AbsorbedAtStart)
        /\ RangeRuns /\ call.alignment # AlignmentEmpty) => [](~RangeEnded)

====
